---- MODULE Spec2Model ----
(***************************************************************************)
(* GraphFormatter: the reactive callbacks of the plot customizer.          *)
(*                                                                         *)
(* The state is the set of Dash component properties the callbacks of      *)
(* CallbackRegistrar read and write; every action is one user event        *)
(* together with the callbacks that event triggers, run to completion.     *)
(*                                                                         *)
(* Encodings.  A Python value that may be None is an option: None is <<>>  *)
(* and a present value v is <<v>>.  A dict keyed by series name is a       *)
(* sequence of [k, v] items in insertion order (Python and JSON objects    *)
(* keep it).  A style record is a function from field names to values.     *)
(* Opacity is counted in hundredths (1.0 is 100).                          *)
(*                                                                         *)
(* Three specifications share the handlers.  Spec follows the popover, the *)
(* store and the chart through the user's events.  SpecResolve hands the   *)
(* settings loop of update_figure a schema and raw values and follows the  *)
(* tree it builds.  SpecTransfer follows the store through style edits,    *)
(* downloads and uploads.                                                  *)
(***************************************************************************)
EXTENDS Integers, Sequences, FiniteSets, TLC

VARIABLES
    config,              \* the seed configuration (self.config), fixed after load
    plot_type,           \* "properties-plot_type".value
    top_line_enabled,    \* "top-line-enabled".value (a checklist)
    selected_columns,    \* "data-table".selected_columns
    trace_properties,    \* "trace-properties".data  (the TraceStyleStore)
    selected_trace,      \* "selected-trace".data
    container_style,     \* "trace-properties-picker-container".style
    container_children,  \* "trace-properties-picker-container".children
    clickData,           \* "figure".clickData
    figure,              \* "figure".figure
    last,                \* history: the event handled last and what it met
    n_events,            \* history: the number of events handled so far
    values,              \* the raw input values handed to update_figure (*values)
    updated_config,      \* the tree update_figure builds from them (updated_config)
    stored_config,       \* "stored-config".data
    download_data,       \* "download-settings".data
    layout,              \* the collapsible sections of app.layout, once they are built
    input_ids,           \* the Inputs update_figure is registered on, once they are built
    pending              \* the callbacks triggered and not yet run, and those run since the
                         \* last user event

vars == <<config, plot_type, top_line_enabled, selected_columns, trace_properties,
          selected_trace, container_style, container_children, clickData, figure, last,
          n_events, values, updated_config, stored_config, download_data, layout, input_ids, pending>>

----------------------------------------------------------------------------
(* Bounds of the model *)

NumSeries == 2
MaxEvents == 5
MaxFields == 3
MaxExchanges == 3
MaxUserEvents == 2

----------------------------------------------------------------------------
(* Python values *)

None == <<>>
Some(v) == <<v>>
Val(o) == o[1]

\* no callback is triggered, none has run
Idle == [triggered |-> {}, ran |-> {}]

NoUpdate == [update |-> FALSE]
Update(x) == [update |-> TRUE, value |-> x]
Apply(o, cur) == IF o.update THEN o.value ELSE cur

EmptyDict == <<>>
EmptyStyle == [f \in {} |-> 0]

HasKey(d, key) == \E i \in 1..Len(d) : d[i].k = key
DictKeys(d) == [i \in 1..Len(d) |-> d[i].k]
DictGet(d, key, default) ==
    IF HasKey(d, key) THEN d[CHOOSE i \in 1..Len(d) : d[i].k = key].v ELSE default
\* d[key] = val on a dict whose entries all alias one record
DictSetAliased(d, key, val) ==
    IF HasKey(d, key)
    THEN [i \in 1..Len(d) |-> [k |-> d[i].k, v |-> val]]
    ELSE Append([i \in 1..Len(d) |-> [k |-> d[i].k, v |-> val]], [k |-> key, v |-> val])

DictSet(d, key, val) ==
    IF HasKey(d, key)
    THEN [i \in 1..Len(d) |-> IF d[i].k = key THEN [k |-> key, v |-> val] ELSE d[i]]
    ELSE Append(d, [k |-> key, v |-> val])
KeySet(d) == {d[i].k : i \in 1..Len(d)}

\* dict(a, **b): the fields of b win
Merged(a, b) == [f \in DOMAIN a \cup DOMAIN b |-> IF f \in DOMAIN b THEN b[f] ELSE a[f]]

----------------------------------------------------------------------------
(* Data *)

ColumnNames == <<"Series A", "Series B", "Series C", "Series D">>
Series == {ColumnNames[i] : i \in 1..NumSeries}

PlotTypes == {"line", "bar_grouped", "bar_stacked", "scatter", "area"}

\* The trace-properties store holds whatever JSON value was put there.
ObjectStore(items) == [kind |-> "object", items |-> items]
ArrayStore == [kind |-> "array", items |-> EmptyDict]
NullStore == [kind |-> "null", items |-> EmptyDict]
Truthy(store) ==
    \/ store.kind = "object" /\ Len(store.items) > 0
    \/ store.kind = "array"

StyleNone == [display |-> "none"]
StyleBlock == [display |-> "block", marginTop |-> "10px", width |-> "250px"]

\* The seed configurations the model starts from.  plot_settings_type is
\* config["plot_settings"]["type"] when the seed has it; complete says that the
\* seed has every section update_figure indexes without a default.
Configs ==
    { [properties_plot_type |-> "line", plot_settings_type |-> None, complete |-> TRUE],
      [properties_plot_type |-> "scatter", plot_settings_type |-> Some("scatter"), complete |-> TRUE],
      [properties_plot_type |-> "line", plot_settings_type |-> None, complete |-> FALSE] }

----------------------------------------------------------------------------
(* The collaborators handed to CallbackRegistrar: what they are called with *)

get_style_controls_for_plot_type(pt, current_style) ==
    [plot_type |-> pt, current_style |-> current_style]

create_trace_fn(col, pt, style) ==
    [name |-> col, plot_type |-> pt, style |-> style]

----------------------------------------------------------------------------
(* 3. Trace clicker logic *)

\* figure_data["data"][curve_idx] cannot be read
StaleClick(curve_idx, figure_data) ==
    \/ figure_data = None
    \/ curve_idx >= Len(Val(figure_data).data)

\* the handler's third output is never applied to "selected-trace"
ReturnedUnselected(a, b, c) ==
    [raised |-> FALSE, style |-> a, children |-> b, selected |-> NoUpdate]

Returned(a, b, c) == [raised |-> FALSE, style |-> a, children |-> b, selected |-> c]
Raised == [raised |-> TRUE, style |-> NoUpdate, children |-> NoUpdate, selected |-> NoUpdate]

\* a stale click treated like the close button
StaleReturnClosing == Returned(Update(StyleNone), NoUpdate, Update(None))

\* return no_update, no_update, no_update
StaleReturn == Returned(NoUpdate, NoUpdate, NoUpdate)

\* the close button hides the popover but keeps the selection
CloseReturnKeepingSelection == Returned(Update(StyleNone), NoUpdate, NoUpdate)

\* return {"display": "none"}, no_update, None
CloseReturn == Returned(Update(StyleNone), NoUpdate, Update(None))

toggle_trace_picker(trigger, click, pt, current_style, figure_data, store, cfg) ==
    IF trigger = None
    THEN Returned(Update(current_style), NoUpdate, NoUpdate)
    ELSE IF Val(trigger) = "trace-properties-close"
    THEN CloseReturn
    ELSE IF click # None
    THEN LET curve_idx == Val(click) IN
         IF StaleClick(curve_idx, figure_data)
         THEN StaleReturn
         ELSE LET trace_name == Val(figure_data).data[curve_idx + 1].name
                  effective == IF pt = None THEN Some(cfg.properties_plot_type) ELSE pt
              IN  IF Truthy(store) /\ store.kind # "object"
                  THEN Raised
                  ELSE Returned(Update(StyleBlock),
                                Update(Some(get_style_controls_for_plot_type(
                                    effective, DictGet(store.items, trace_name, EmptyStyle)))),
                                Update(Some(trace_name)))
    ELSE IF Val(trigger) = "properties-plot_type" /\ current_style.display = "block"
    THEN IF Truthy(store) /\ store.kind # "object"
         THEN Raised
         ELSE IF Truthy(store)
              THEN LET sel == DictKeys(store.items)[1] IN
                   Returned(Update(current_style),
                            Update(Some(get_style_controls_for_plot_type(
                                pt, DictGet(store.items, sel, EmptyStyle)))),
                            Update(Some(sel)))
              ELSE Returned(NoUpdate, NoUpdate, NoUpdate)
    ELSE Returned(NoUpdate, NoUpdate, NoUpdate)

----------------------------------------------------------------------------
(* 4. Trace style update logic *)

DefaultColor == "#636EFA"

StyleData(color, line_width, marker_size, dash, opacity, pt) ==
    LET base == [f \in {"color", "opacity", "line_width", "marker_size"} |->
                    CASE f = "color" -> IF color # None THEN Val(color) ELSE DefaultColor
                      [] f = "opacity" -> IF opacity # None THEN Val(opacity) ELSE 100
                      [] f = "line_width" -> IF line_width # None THEN Val(line_width) ELSE 2
                      [] f = "marker_size" -> IF marker_size # None THEN Val(marker_size) ELSE 8]
        withDash == IF pt \in {"line", "area"}
                    THEN Merged(base, [f \in {"dash"} |->
                            IF dash # None /\ Val(dash) # "" THEN Val(dash) ELSE "solid"])
                    ELSE base
    IN  IF pt = "scatter"
        THEN Merged(withDash, [f \in {"symbol"} |-> "circle"])
        ELSE withDash

\* data[trace_name] = style_data, on a fresh dict holding only that entry
WriteStyleFresh(trace_name, style_data, data) ==
    IF data.kind # "object"
    THEN [raised |-> TRUE, data |-> data]
    ELSE [raised |-> FALSE, data |-> ObjectStore(<<[k |-> trace_name, v |-> style_data]>>)]

\* data[trace_name] = style_data
WriteStyle(trace_name, style_data, data) ==
    IF data.kind # "object"
    THEN [raised |-> TRUE, data |-> data]
    ELSE [raised |-> FALSE, data |-> ObjectStore(DictSet(data.items, trace_name, style_data))]

SeedPlotType(cfg) ==
    IF cfg.plot_settings_type = None THEN "line" ELSE Val(cfg.plot_settings_type)

\* without a selection the handler returns an empty store
update_trace_style_clearing(color, line_width, marker_size, dash, opacity, trace_name, data, cfg) ==
    IF trace_name # None /\ Val(trace_name) # ""
    THEN WriteStyle(Val(trace_name),
                    StyleData(color, line_width, marker_size, dash, opacity, SeedPlotType(cfg)),
                    data)
    ELSE [raised |-> FALSE, data |-> ObjectStore(EmptyDict)]

update_trace_style(color, line_width, marker_size, dash, opacity, trace_name, data, cfg) ==
    IF trace_name # None /\ Val(trace_name) # ""
    THEN WriteStyle(Val(trace_name),
                    StyleData(color, line_width, marker_size, dash, opacity, SeedPlotType(cfg)),
                    data)
    ELSE [raised |-> FALSE, data |-> data]

----------------------------------------------------------------------------
(* 5. Figure update logic *)

SeqContains(seq, x) == \E i \in 1..Len(seq) : seq[i] = x

\* one trace per entry of the store, whatever is selected
update_figure_per_entry(pt, enabled_value, cols, store, cfg) ==
    IF (Len(cols) > 0 /\ store.kind # "object") \/ ~cfg.complete
    THEN [raised |-> TRUE, fig |-> None]
    ELSE [raised |-> FALSE,
          fig |-> Some([data |-> [i \in 1..Len(store.items) |->
                                    create_trace_fn(store.items[i].k, pt, store.items[i].v)],
                        top_line |-> SeqContains(enabled_value, "on"),
                        barmode |-> IF pt = Some("bar_stacked") THEN Some("stack")
                                    ELSE IF pt = Some("bar_grouped") THEN Some("group")
                                    ELSE None])]

\* every bar chart is stacked
update_figure_stacking(pt, enabled_value, cols, store, cfg) ==
    IF (Len(cols) > 0 /\ store.kind # "object") \/ ~cfg.complete
    THEN [raised |-> TRUE, fig |-> None]
    ELSE [raised |-> FALSE,
          fig |-> Some([data |-> [i \in 1..Len(cols) |->
                                    create_trace_fn(cols[i], pt,
                                                    DictGet(store.items, cols[i], EmptyStyle))],
                        top_line |-> SeqContains(enabled_value, "on"),
                        barmode |-> IF pt \in {Some("bar_stacked"), Some("bar_grouped")}
                                    THEN Some("stack")
                                    ELSE None])]

update_figure(pt, enabled_value, cols, store, cfg) ==
    IF (Len(cols) > 0 /\ store.kind # "object") \/ ~cfg.complete
    THEN [raised |-> TRUE, fig |-> None]
    ELSE [raised |-> FALSE,
          fig |-> Some([data |-> [i \in 1..Len(cols) |->
                                    create_trace_fn(cols[i], pt,
                                                    DictGet(store.items, cols[i], EmptyStyle))],
                        top_line |-> SeqContains(enabled_value, "on"),
                        barmode |-> IF pt = Some("bar_stacked") THEN Some("stack")
                                    ELSE IF pt = Some("bar_grouped") THEN Some("group")
                                    ELSE None])]

----------------------------------------------------------------------------
(* 5. Figure update logic: the settings resolved from the raw input values *)

\* A Python value with the type the loop tests by isinstance: its type, and
\* the truth value, number, text or items that a value of that type holds.
\* The items of a list are values, those of a dict are entries: a key with
\* its value.
PyNone == [t |-> "NoneType", b |-> FALSE, n |-> 0, s |-> "", items |-> <<>>]
PyBool(b) == [PyNone EXCEPT !.t = "bool", !.b = b]
PyStr(str) == [PyNone EXCEPT !.t = "str", !.s = str]
PyInt(n) == [PyNone EXCEPT !.t = "int", !.n = n]
PyList(seq) == [PyNone EXCEPT !.t = "list", !.items = seq]
PyEntry(key, value) == [PyNone EXCEPT !.t = "entry", !.s = key, !.items = <<value>>]
PyDict(entries) == [PyNone EXCEPT !.t = "dict", !.items = entries]
isinstance(x, type) == x.t = type

\* key in d, d[key]
PyHasKey(d, key) == \E e \in 1..Len(d.items) : d.items[e].s = key
PyGet(d, key) == d.items[CHOOSE e \in 1..Len(d.items) : d.items[e].s = key].items[1]

\* x or y
Falsy(x) ==
    \/ x.t = "NoneType"
    \/ x.t = "bool" /\ ~x.b
    \/ x.t = "int" /\ x.n = 0
    \/ x.t = "str" /\ x.s = ""
    \/ x.t \in {"list", "dict"} /\ x.items = <<>>
Or(x, y) == IF Falsy(x) THEN y ELSE x

\* marker in c: membership in a list, key of a dict, substring of a string (no
\* string of the model holds the marker as a proper part), TypeError otherwise
Contains(c, marker) ==
    IF c.t = "list" THEN [raised |-> FALSE, value |-> SeqContains(c.items, PyStr(marker))]
    ELSE IF c.t = "dict" THEN [raised |-> FALSE, value |-> PyHasKey(c, marker)]
    ELSE IF c.t = "str" THEN [raised |-> FALSE, value |-> c.s = marker]
    ELSE [raised |-> TRUE, value |-> FALSE]

\* "color" in setting
ColorSettings == {"color", "paper_bgcolor"}

\* values[i], i counted from 0
InRange(vals, i) == i < Len(vals)
At(vals, i) == vals[i + 1]

FieldRaised(i) == [raised |-> TRUE, value |-> PyNone, i |-> i]
FieldSet(value, i) == [raised |-> FALSE, value |-> value, i |-> i]

\* a range field takes its first value twice
resolve_field_repeating(setting, default_val, vals, i) ==
    IF ~InRange(vals, i) THEN FieldRaised(i)
    ELSE LET input_val == At(vals, i)
         IN  IF isinstance(default_val, "bool")
             THEN LET c == Contains(Or(input_val, PyList(<<>>)), "on")
                  IN  IF c.raised THEN FieldRaised(i) ELSE FieldSet(PyBool(c.value), i + 1)
             ELSE IF isinstance(default_val, "str") /\ setting \in ColorSettings
             THEN IF isinstance(input_val, "dict")
                  THEN IF PyHasKey(input_val, "hex")
                       THEN FieldSet(PyGet(input_val, "hex"), i + 1)
                       ELSE FieldRaised(i)
                  ELSE FieldSet(input_val, i + 1)
             ELSE IF isinstance(default_val, "list") /\ Len(default_val.items) = 2
             THEN IF ~InRange(vals, i + 1) THEN FieldRaised(i)
                  ELSE FieldSet(PyList(<<At(vals, i), At(vals, i)>>), i + 2)
             ELSE FieldSet(input_val, i + 1)

\* a range field moves the index on by one
resolve_field_overlapping(setting, default_val, vals, i) ==
    IF ~InRange(vals, i) THEN FieldRaised(i)
    ELSE LET input_val == At(vals, i)
         IN  IF isinstance(default_val, "bool")
             THEN LET c == Contains(Or(input_val, PyList(<<>>)), "on")
                  IN  IF c.raised THEN FieldRaised(i) ELSE FieldSet(PyBool(c.value), i + 1)
             ELSE IF isinstance(default_val, "str") /\ setting \in ColorSettings
             THEN IF isinstance(input_val, "dict")
                  THEN IF PyHasKey(input_val, "hex")
                       THEN FieldSet(PyGet(input_val, "hex"), i + 1)
                       ELSE FieldRaised(i)
                  ELSE FieldSet(input_val, i + 1)
             ELSE IF isinstance(default_val, "list") /\ Len(default_val.items) = 2
             THEN IF ~InRange(vals, i + 1) THEN FieldRaised(i)
                  ELSE FieldSet(PyList(<<At(vals, i), At(vals, i + 1)>>), i + 1)
             ELSE FieldSet(input_val, i + 1)

\* a boolean field without a raw value falls back on its default
resolve_field_defaulting(setting, default_val, vals, i) ==
    IF ~InRange(vals, i) THEN FieldRaised(i)
    ELSE LET input_val == At(vals, i)
         IN  IF isinstance(default_val, "bool")
             THEN IF isinstance(input_val, "NoneType")
                  THEN FieldSet(default_val, i + 1)
                  ELSE LET c == Contains(input_val, "on")
                       IN  IF c.raised THEN FieldRaised(i)
                           ELSE FieldSet(PyBool(c.value), i + 1)
             ELSE IF isinstance(default_val, "str") /\ setting \in ColorSettings
             THEN IF isinstance(input_val, "dict")
                  THEN IF PyHasKey(input_val, "hex")
                       THEN FieldSet(PyGet(input_val, "hex"), i + 1)
                       ELSE FieldRaised(i)
                  ELSE FieldSet(input_val, i + 1)
             ELSE IF isinstance(default_val, "list") /\ Len(default_val.items) = 2
             THEN IF ~InRange(vals, i + 1) THEN FieldRaised(i)
                  ELSE FieldSet(PyList(<<At(vals, i), At(vals, i + 1)>>), i + 2)
             ELSE FieldSet(input_val, i + 1)

\* a color field keeps the value of its picker as it comes
resolve_field_wrapped(setting, default_val, vals, i) ==
    IF ~InRange(vals, i) THEN FieldRaised(i)
    ELSE LET input_val == At(vals, i)
         IN  IF isinstance(default_val, "bool")
             THEN LET c == Contains(Or(input_val, PyList(<<>>)), "on")
                  IN  IF c.raised THEN FieldRaised(i) ELSE FieldSet(PyBool(c.value), i + 1)
             ELSE IF isinstance(default_val, "list") /\ Len(default_val.items) = 2
             THEN IF ~InRange(vals, i + 1) THEN FieldRaised(i)
                  ELSE FieldSet(PyList(<<At(vals, i), At(vals, i + 1)>>), i + 2)
             ELSE FieldSet(input_val, i + 1)

\* The body of the inner loop: the value of one setting and the index after it.
\* values[i] past the end is an IndexError, input_val["hex"] without the key a
\* KeyError.
resolve_field(setting, default_val, vals, i) ==
    IF ~InRange(vals, i) THEN FieldRaised(i)
    ELSE LET input_val == At(vals, i)
         IN  IF isinstance(default_val, "bool")
             THEN LET c == Contains(Or(input_val, PyList(<<>>)), "on")
                  IN  IF c.raised THEN FieldRaised(i) ELSE FieldSet(PyBool(c.value), i + 1)
             ELSE IF isinstance(default_val, "str") /\ setting \in ColorSettings
             THEN IF isinstance(input_val, "dict")
                  THEN IF PyHasKey(input_val, "hex")
                       THEN FieldSet(PyGet(input_val, "hex"), i + 1)
                       ELSE FieldRaised(i)
                  ELSE FieldSet(input_val, i + 1)
             ELSE IF isinstance(default_val, "list") /\ Len(default_val.items) = 2
             THEN IF ~InRange(vals, i + 1) THEN FieldRaised(i)
                  ELSE FieldSet(PyList(<<At(vals, i), At(vals, i + 1)>>), i + 2)
             ELSE FieldSet(input_val, i + 1)

\* for setting, default_val in settings.items()
RECURSIVE resolve_section(_, _, _)
resolve_section(settings, vals, i) ==
    IF settings = <<>>
    THEN [raised |-> FALSE, out |-> EmptyDict, i |-> i]
    ELSE LET f == resolve_field(Head(settings).k, Head(settings).v, vals, i)
         IN  IF f.raised
             THEN [raised |-> TRUE, out |-> EmptyDict, i |-> i]
             ELSE LET rest == resolve_section(Tail(settings), vals, f.i)
                  IN  [raised |-> rest.raised,
                       out |-> <<[k |-> Head(settings).k, v |-> f.value]>> \o rest.out,
                       i |-> rest.i]

\* for section, settings in self.config.items()
RECURSIVE resolve_sections(_, _, _)
resolve_sections(sections, vals, i) ==
    IF sections = <<>>
    THEN [raised |-> FALSE, out |-> EmptyDict, i |-> i]
    ELSE LET sec == resolve_section(Head(sections).v, vals, i)
         IN  IF sec.raised
             THEN [raised |-> TRUE, out |-> EmptyDict, i |-> i]
             ELSE LET rest == resolve_sections(Tail(sections), vals, sec.i)
                  IN  [raised |-> rest.raised,
                       out |-> <<[k |-> Head(sections).k, v |-> sec.out]>> \o rest.out,
                       i |-> rest.i]

\* updated_config after the loop, i starting at 0
resolve_settings(cfg, vals) == resolve_sections(cfg, vals, 0)

----------------------------------------------------------------------------
(* 6. Store config for download *)

\* JSON text, as the tokens it is made of.
Tok(type) == [tok |-> type, s |-> "", n |-> 0]
StringToken(str) == [tok |-> "string", s |-> str, n |-> 0]
\* a number is written without its fraction
NumberTokenTruncated(n) == [tok |-> "number", s |-> "", n |-> (n \div 100) * 100]
NumberToken(n) == [tok |-> "number", s |-> "", n |-> n]

\* the fields of a style record that hold numbers; the others hold strings
NumberFields == {"opacity", "line_width", "marker_size"}
\* the order in which update_trace_style inserts the fields
FieldOrder == <<"color", "opacity", "line_width", "marker_size", "dash", "symbol">>

\* the texts of parts, a comma between each two
RECURSIVE Joined(_)
Joined(parts) ==
    IF parts = <<>> THEN <<>>
    ELSE IF Len(parts) = 1 THEN parts[1]
    ELSE parts[1] \o <<Tok(",")>> \o Joined(Tail(parts))

DumpedField(f, value) ==
    <<StringToken(f), Tok(":"),
      IF f \in NumberFields THEN NumberToken(value) ELSE StringToken(value)>>

DumpedRecord(rec) ==
    LET fields == SelectSeq(FieldOrder, LAMBDA f : f \in DOMAIN rec)
    IN  <<Tok("{")>>
          \o Joined([i \in 1..Len(fields) |-> DumpedField(fields[i], rec[fields[i]])])
          \o <<Tok("}")>>

\* json.dumps(trace_data, indent=2)
json_dumps(data) ==
    IF data.kind = "array" THEN <<Tok("["), NumberToken(1), Tok("]")>>
    ELSE IF data.kind = "null" THEN <<Tok("null")>>
    ELSE <<Tok("{")>>
           \o Joined([i \in 1..Len(data.items) |->
                        <<StringToken(data.items[i].k), Tok(":")>>
                          \o DumpedRecord(data.items[i].v)])
           \o <<Tok("}")>>

\* The members of a JSON object of scalars, read from the token after its "{"
\* up to its "}"; pos is the token to read next.
RECURSIVE ParsedFields(_, _)
ParsedFields(text, pos) ==
    IF text[pos].tok = "}" THEN [items |-> <<>>, pos |-> pos + 1]
    ELSE IF text[pos].tok = "," THEN ParsedFields(text, pos + 1)
    ELSE LET value == IF text[pos + 2].tok = "number" THEN text[pos + 2].n ELSE text[pos + 2].s
             rest == ParsedFields(text, pos + 3)
         IN  [items |-> <<[k |-> text[pos].s, v |-> value]>> \o rest.items, pos |-> rest.pos]

AsRecord(items) ==
    [f \in KeySet(items) |-> items[CHOOSE i \in 1..Len(items) : items[i].k = f].v]

\* the members of a JSON object of such objects
RECURSIVE ParsedMembers(_, _)
ParsedMembers(text, pos) ==
    IF text[pos].tok = "}" THEN [items |-> <<>>, pos |-> pos + 1]
    ELSE IF text[pos].tok = "," THEN ParsedMembers(text, pos + 1)
    ELSE LET rec == ParsedFields(text, pos + 3)
             rest == ParsedMembers(text, rec.pos)
         IN  [items |-> <<[k |-> text[pos].s, v |-> AsRecord(rec.items)]>> \o rest.items,
              pos |-> rest.pos]

\* json.loads of a text json.dumps wrote
json_loads(text) ==
    IF text[1].tok = "[" THEN ArrayStore
    ELSE IF text[1].tok = "null" THEN NullStore
    ELSE ObjectStore(ParsedMembers(text, 2).items)

\* yaml.dump(config_data, sort_keys=False): a line for each section, and under
\* it an indented line for each of its settings
RECURSIVE yaml_dump(_)
yaml_dump(config_data) ==
    IF config_data = <<>> THEN <<>>
    ELSE <<[indent |-> 0, key |-> Head(config_data).k, value |-> PyNone]>>
           \o [i \in 1..Len(Head(config_data).v) |->
                 [indent |-> 2, key |-> Head(config_data).v[i].k,
                  value |-> Head(config_data).v[i].v]]
           \o yaml_dump(Tail(config_data))

Bundle(config_yml, trace_styles_json) ==
    [filename |-> "plot_settings.zip",
     members |-> <<[name |-> "config.yml", content |-> config_yml],
                   [name |-> "trace_styles.json", content |-> trace_styles_json]>>]

download_combined_zip(n_clicks, config_data, trace_data) ==
    IF config_data = EmptyDict \/ ~Truthy(trace_data)
    THEN NoUpdate
    ELSE Update(Some(Bundle(yaml_dump(config_data), json_dumps(trace_data))))

----------------------------------------------------------------------------
(* 7. Upload config callback *)

\* An uploaded payload: whether its bytes decode as UTF-8 JSON, and the value
\* they decode to.
Undecodable == [decodes |-> FALSE, json |-> NullStore]
Decodable(json) == [decodes |-> TRUE, json |-> json]

\* bytes that do not decode empty the store
load_trace_styles_resetting(contents) ==
    IF contents = None
    THEN NoUpdate
    ELSE IF ~Val(contents).decodes
    THEN Update(ObjectStore(EmptyDict))
    ELSE Update(Val(contents).json)

load_trace_styles(contents) ==
    IF contents = None
    THEN NoUpdate
    ELSE IF ~Val(contents).decodes
    THEN NoUpdate
    ELSE Update(Val(contents).json)

----------------------------------------------------------------------------
(* Inputs of the events *)

PlotTypeValues == {Some(p) : p \in PlotTypes} \cup {None}

Edit(c, w, m, d, o) ==
    [color |-> c, line_width |-> w, marker_size |-> m, dash |-> d, opacity |-> o]

StyleEdits ==
    { Edit(None, None, None, None, None),
      Edit(Some("#EF553B"), Some(4), None, None, Some(0)),
      Edit(None, None, Some(12), Some("dot"), Some(50)) }

ImportedStyle ==
    [f \in {"color", "dash", "symbol"} |->
        CASE f = "color" -> "#00CC96" [] f = "dash" -> "dash" [] f = "symbol" -> "diamond"]

Payloads ==
    { Undecodable,
      Decodable(ObjectStore(<<[k |-> ColumnNames[1], v |-> ImportedStyle]>>)),
      Decodable(ObjectStore(EmptyDict)),
      Decodable(ArrayStore),
      Decodable(NullStore) }

----------------------------------------------------------------------------
(* State machine *)

Event(name, input, raised) ==
    [event |-> name, input |-> input, raised |-> raised,
     was_open |-> container_style.display = "block",
     was_selected |-> selected_trace]

RaisedBy(name, r) == IF r.raised THEN {name} ELSE {}

\* the figure object is reused: a reference line drawn once stays
RebuiltKeepingShapes(r) ==
    IF r.raised THEN figure
    ELSE Some([Val(r.fig) EXCEPT !.top_line = @ \/ (figure # None /\ Val(figure).top_line)])

\* Dash keeps the current value of an output a callback does not update, and
\* of every output when the callback raises.
Rebuilt(r) == IF r.raised THEN figure ELSE r.fig

PickerOutputs(r) ==
    /\ container_style' = Apply(r.style, container_style)
    /\ container_children' = Apply(r.children, container_children)
    /\ selected_trace' = Apply(r.selected, selected_trace)

Init ==
    /\ config \in Configs
    /\ plot_type = Some(config.properties_plot_type)
    /\ top_line_enabled = <<>>
    /\ selected_columns = <<>>
    /\ trace_properties = ObjectStore(EmptyDict)
    /\ selected_trace = None
    /\ container_style = StyleNone
    /\ container_children = None
    /\ clickData = None
    /\ figure = update_figure(plot_type, top_line_enabled, selected_columns,
                              trace_properties, config).fig
    /\ last = [event |-> "load", input |-> None, raised |-> {},
               was_open |-> FALSE, was_selected |-> None]
    /\ n_events = 0
    /\ values = <<>>
    /\ updated_config = None
    /\ stored_config = EmptyDict
    /\ download_data = None
    /\ layout = None
    /\ input_ids = None
    /\ pending = Idle

\* a click also writes a default record for the trace it resolves
TraceClickedSeeding(curve_idx) ==
    LET r == toggle_trace_picker(Some("figure"), Some(curve_idx), plot_type, container_style,
                                 figure, trace_properties, config)
    IN  /\ clickData' = Some(curve_idx)
        /\ PickerOutputs(r)
        /\ trace_properties' =
              IF r.selected.update /\ r.selected.value # None /\ trace_properties.kind = "object"
              THEN ObjectStore(DictSet(trace_properties.items, Val(r.selected.value),
                                       StyleData(None, None, None, None, None, "line")))
              ELSE trace_properties
        /\ last' = Event("click", curve_idx, RaisedBy("toggle_trace_picker", r))
        /\ UNCHANGED <<config, plot_type, top_line_enabled, selected_columns, figure>>

\* A click on the chart: "figure".clickData changes and triggers toggle_trace_picker.
TraceClicked(curve_idx) ==
    LET r == toggle_trace_picker(Some("figure"), Some(curve_idx), plot_type, container_style,
                                 figure, trace_properties, config)
    IN  /\ clickData' = Some(curve_idx)
        /\ PickerOutputs(r)
        /\ last' = Event("click", curve_idx, RaisedBy("toggle_trace_picker", r))
        /\ UNCHANGED <<config, plot_type, top_line_enabled, selected_columns,
                       trace_properties, figure>>

\* The close button: "trace-properties-close".n_clicks triggers toggle_trace_picker.
CloseClicked ==
    LET r == toggle_trace_picker(Some("trace-properties-close"), clickData, plot_type,
                                 container_style, figure, trace_properties, config)
    IN  /\ PickerOutputs(r)
        /\ last' = Event("close", None, RaisedBy("toggle_trace_picker", r))
        /\ UNCHANGED <<config, plot_type, top_line_enabled, selected_columns,
                       trace_properties, clickData, figure>>

\* The plot-type dropdown: triggers update_figure and toggle_trace_picker, both
\* dispatched with the state the event met.
PlotTypeChanged(pt) ==
    LET r == toggle_trace_picker(Some("properties-plot_type"), clickData, pt, container_style,
                                 figure, trace_properties, config)
        f == update_figure(pt, top_line_enabled, selected_columns, trace_properties, config)
    IN  /\ pt # plot_type
        /\ plot_type' = pt
        /\ PickerOutputs(r)
        /\ figure' = Rebuilt(f)
        /\ last' = Event("plot_type", pt,
                         RaisedBy("toggle_trace_picker", r) \cup RaisedBy("update_figure", f))
        /\ UNCHANGED <<config, top_line_enabled, selected_columns, trace_properties, clickData>>

\* A column header of the data table is selected or deselected.
Toggled(cols, col) ==
    IF SeqContains(cols, col)
    THEN SelectSeq(cols, LAMBDA c : c # col)
    ELSE Append(cols, col)

ColumnToggled(col) ==
    LET cols == Toggled(selected_columns, col)
        f == update_figure(plot_type, top_line_enabled, cols, trace_properties, config)
    IN  /\ selected_columns' = cols
        /\ figure' = Rebuilt(f)
        /\ last' = Event("columns", col, RaisedBy("update_figure", f))
        /\ UNCHANGED <<config, plot_type, top_line_enabled, trace_properties, selected_trace,
                       container_style, container_children, clickData>>

\* A settings input other than the plot type changes (the top-line checkbox).
SettingsEdited ==
    LET enabled == IF top_line_enabled = <<>> THEN <<"on">> ELSE <<>>
        f == update_figure(plot_type, enabled, selected_columns, trace_properties, config)
    IN  /\ top_line_enabled' = enabled
        /\ figure' = Rebuilt(f)
        /\ last' = Event("settings", None, RaisedBy("update_figure", f))
        /\ UNCHANGED <<config, plot_type, selected_columns, trace_properties, selected_trace,
                       container_style, container_children, clickData>>

\* the store is published after the color is written and before the other
\* fields are: update_figure runs on the half-written record
StyleEditedTorn(e) ==
    LET r == update_trace_style(e.color, e.line_width, e.marker_size, e.dash, e.opacity,
                                selected_trace, trace_properties, config)
        torn == update_trace_style(e.color, None, None, None, None,
                                   selected_trace, trace_properties, config)
        f == update_figure(plot_type, top_line_enabled, selected_columns, torn.data, config)
    IN  /\ trace_properties' = r.data
        /\ figure' = IF r.raised THEN figure ELSE Rebuilt(f)
        /\ last' = Event("style_edit", e,
                         RaisedBy("update_trace_style", r)
                           \cup (IF r.raised THEN {} ELSE RaisedBy("update_figure", f)))
        /\ UNCHANGED <<config, plot_type, top_line_enabled, selected_columns, selected_trace,
                       container_style, container_children, clickData>>

\* The style inputs of the popover change: update_trace_style runs, and the
\* store it returns triggers update_figure.
StyleEdited(e) ==
    LET r == update_trace_style(e.color, e.line_width, e.marker_size, e.dash, e.opacity,
                                selected_trace, trace_properties, config)
        f == update_figure(plot_type, top_line_enabled, selected_columns, r.data, config)
    IN  /\ trace_properties' = r.data
        /\ figure' = IF r.raised THEN figure ELSE Rebuilt(f)
        /\ last' = Event("style_edit", e,
                         RaisedBy("update_trace_style", r)
                           \cup (IF r.raised THEN {} ELSE RaisedBy("update_figure", f)))
        /\ UNCHANGED <<config, plot_type, top_line_enabled, selected_columns, selected_trace,
                       container_style, container_children, clickData>>

\* the imported object is laid over the entries the store already has
StylesUploadedMerging(payload) ==
    LET r == load_trace_styles(Some(payload))
        store == IF r.update /\ r.value.kind = "object" /\ trace_properties.kind = "object"
                 THEN ObjectStore(SelectSeq(trace_properties.items,
                                            LAMBDA e : ~HasKey(r.value.items, e.k))
                                    \o r.value.items)
                 ELSE Apply(r, trace_properties)
        f == update_figure(plot_type, top_line_enabled, selected_columns, store, config)
    IN  /\ trace_properties' = store
        /\ figure' = IF r.update THEN Rebuilt(f) ELSE figure
        /\ last' = Event("upload", [contents |-> payload, replaced |-> trace_properties],
                         IF r.update THEN RaisedBy("update_figure", f) ELSE {})
        /\ UNCHANGED <<config, plot_type, top_line_enabled, selected_columns, selected_trace,
                       container_style, container_children, clickData>>

\* A file is dropped on the upload control: load_trace_styles runs, and the
\* store it returns triggers update_figure.
StylesUploaded(payload) ==
    LET r == load_trace_styles(Some(payload))
        store == Apply(r, trace_properties)
        f == update_figure(plot_type, top_line_enabled, selected_columns, store, config)
    IN  /\ trace_properties' = store
        /\ figure' = IF r.update THEN Rebuilt(f) ELSE figure
        /\ last' = Event("upload", [contents |-> payload, replaced |-> trace_properties],
                         IF r.update THEN RaisedBy("update_figure", f) ELSE {})
        /\ UNCHANGED <<config, plot_type, top_line_enabled, selected_columns, selected_trace,
                       container_style, container_children, clickData>>

\* The curve numbers a click may carry: one per series, and one beyond them.
CurveNumbers == 0..NumSeries

Handled(event) ==
    /\ n_events < MaxEvents
    /\ event
    /\ n_events' = n_events + 1
    /\ UNCHANGED <<values, updated_config, stored_config, download_data, layout, input_ids, pending>>

Next ==
    \/ \E curve_idx \in CurveNumbers : Handled(TraceClicked(curve_idx))
    \/ Handled(CloseClicked)
    \/ \E pt \in PlotTypeValues : Handled(PlotTypeChanged(pt))
    \/ \E col \in Series : Handled(ColumnToggled(col))
    \/ Handled(SettingsEdited)
    \/ \E e \in StyleEdits : Handled(StyleEdited(e))
    \/ \E payload \in Payloads : Handled(StylesUploaded(payload))

Spec == Init /\ [][Next]_vars

----------------------------------------------------------------------------
(* The settings loop on its own: a schema, the raw values handed over *)

\* Settings of the kinds create_collapsible_section builds an input for.
SettingPool ==
    { [k |-> "text", v |-> PyStr("Chart")],
      [k |-> "enabled", v |-> PyBool(TRUE)],
      [k |-> "enabled", v |-> PyBool(FALSE)],
      [k |-> "color", v |-> PyStr("#636EFA")],
      [k |-> "range", v |-> PyList(<<PyInt(0), PyInt(10)>>)],
      [k |-> "width", v |-> PyInt(2)] }

\* the settings of a configuration in declared order, no name twice
SettingSeqs ==
    { fs \in UNION { [1..n -> SettingPool] : n \in 0..MaxFields } :
        \A a, b \in 1..Len(fs) : fs[a].k = fs[b].k => a = b }

\* self.config: two sections over which the settings are split
Schemas ==
    UNION { { << [k |-> "properties", v |-> SubSeq(fs, 1, j)],
                 [k |-> "top-line", v |-> SubSeq(fs, j + 1, Len(fs))] >> : j \in 0..Len(fs) }
            : fs \in SettingSeqs }

\* The values the input components of a setting deliver: a checklist None, []
\* or ["on"]; a color picker {"hex": h}, or h when the value was set as text;
\* a text input a string; a number input a number; a range two numbers.
RawValues(setting, default_val) ==
    IF isinstance(default_val, "bool")
    THEN { <<PyNone>>, <<PyList(<<>>)>>, <<PyList(<<PyStr("on")>>)>> }
    ELSE IF isinstance(default_val, "str") /\ setting \in ColorSettings
    THEN { <<PyDict(<<PyEntry("hex", PyStr("#EF553B"))>>)>>, <<PyStr("#EF553B")>> }
    ELSE IF isinstance(default_val, "str")
    THEN { <<PyStr("Sales")>> }
    ELSE IF isinstance(default_val, "list") /\ Len(default_val.items) = 2
    THEN { <<PyInt(1), PyInt(5)>> }
    ELSE { <<PyInt(4)>> }

RECURSIVE Flattened(_)
Flattened(sections) ==
    IF sections = <<>> THEN <<>> ELSE Head(sections).v \o Flattened(Tail(sections))

\* the inputs of a setting: "_0" and "_1" for a range, one otherwise
Width(default_val) ==
    IF isinstance(default_val, "list") /\ Len(default_val.items) = 2 THEN 2 ELSE 1

\* the number of inputs before those of the g-th setting
RECURSIVE Offset(_, _)
Offset(settings, g) ==
    IF g = 1 THEN 0 ELSE Offset(settings, g - 1) + Width(settings[g - 1].v)

ImpliedCount(cfg) == Offset(Flattened(cfg), Len(Flattened(cfg)) + 1)

RECURSIVE AlignedValues(_)
AlignedValues(settings) ==
    IF settings = <<>> THEN { <<>> }
    ELSE { b \o rest : b \in RawValues(Head(settings).k, Head(settings).v),
                       rest \in AlignedValues(Tail(settings)) }

\* What a caller may hand over: the values of the inputs, fewer of them, or one more.
HandedValues(cfg) ==
    UNION { { SubSeq(a, 1, n) : n \in 0..Len(a) } \cup { a \o <<PyInt(7)>> }
            : a \in AlignedValues(Flattened(cfg)) }

AtRest ==
    /\ plot_type = None
    /\ top_line_enabled = <<>>
    /\ selected_columns = <<>>
    /\ trace_properties = ObjectStore(EmptyDict)
    /\ selected_trace = None
    /\ container_style = StyleNone
    /\ container_children = None
    /\ clickData = None
    /\ figure = None
    /\ n_events = 0
    /\ stored_config = EmptyDict
    /\ download_data = None
    /\ layout = None
    /\ input_ids = None
    /\ pending = Idle

InitResolve ==
    /\ config \in Schemas
    /\ values \in HandedValues(config)
    /\ updated_config = None
    /\ last = [event |-> "load", input |-> None, raised |-> {},
               was_open |-> FALSE, was_selected |-> None]
    /\ AtRest

\* update_figure runs its loop over the values.
SettingsResolved ==
    LET r == resolve_settings(config, values)
    IN  /\ last.event = "load"
        /\ updated_config' = IF r.raised THEN None ELSE Some(r.out)
        /\ last' = Event("resolve", None, RaisedBy("update_figure", r))
        /\ UNCHANGED <<config, values, plot_type, top_line_enabled, selected_columns,
                       trace_properties, selected_trace, container_style,
                       container_children, clickData, figure, n_events, stored_config,
                       download_data, layout, input_ids, pending>>

Swapped(seq, j) ==
    [x \in 1..Len(seq) |-> IF x = j THEN seq[j + 1] ELSE IF x = j + 1 THEN seq[j] ELSE seq[x]]

\* the values of the g-th and the next setting change places, a range's two together
Moved(vals, settings, g) ==
    LET o == Offset(settings, g)
        w1 == Width(settings[g].v)
        w2 == Width(settings[g + 1].v)
    IN  SubSeq(vals, 1, o) \o SubSeq(vals, o + w1 + 1, o + w1 + w2)
          \o SubSeq(vals, o + 1, o + w1) \o SubSeq(vals, o + w1 + w2 + 1, Len(vals))

\* The same settings declared in another order: the j-th and the next setting
\* of a section change places, their inputs with them, and the loop runs again.
SettingsSwapped(sec, j) ==
    LET g == Len(Flattened(SubSeq(config, 1, sec - 1))) + j
        cfg == [config EXCEPT ![sec].v = Swapped(@, j)]
        vals == Moved(values, Flattened(config), g)
        r == resolve_settings(cfg, vals)
    IN  /\ updated_config # None
        /\ Len(values) = ImpliedCount(config)
        /\ j < Len(config[sec].v)
        /\ config' = cfg
        /\ values' = vals
        /\ updated_config' = IF r.raised THEN None ELSE Some(r.out)
        /\ last' = Event("permute", [section |-> sec, setting |-> j],
                         RaisedBy("update_figure", r))
        /\ UNCHANGED <<plot_type, top_line_enabled, selected_columns, trace_properties,
                       selected_trace, container_style, container_children, clickData,
                       figure, n_events, stored_config, download_data, layout, input_ids, pending>>

NextResolve ==
    \/ SettingsResolved
    \/ \E sec \in 1..Len(config), j \in 1..MaxFields : SettingsSwapped(sec, j)

SpecResolve == InitResolve /\ [][NextResolve]_vars

----------------------------------------------------------------------------
(* The store between edits, downloads and uploads *)

\* the schema whose inputs deliver the values of this specification
SeedSchema ==
    << [k |-> "properties", v |-> <<[k |-> "width", v |-> PyInt(2)]>>],
       [k |-> "top-line", v |-> <<[k |-> "enabled", v |-> PyBool(FALSE)]>>] >>

\* "stored-config".data after update_figure ran over vals: its second output,
\* or what the store held when it raised
StoredAfter(f, vals, stored) ==
    LET r == resolve_settings(SeedSchema, vals)
    IN  IF f.raised \/ r.raised THEN stored ELSE r.out

\* The page after its first round of callbacks, no column selected.
InitTransfer ==
    /\ config \in Configs
    /\ plot_type = Some(config.properties_plot_type)
    /\ top_line_enabled = <<>>
    /\ selected_columns = <<>>
    /\ trace_properties = ObjectStore(EmptyDict)
    /\ selected_trace = None
    /\ container_style = StyleNone
    /\ container_children = None
    /\ clickData = None
    /\ values \in AlignedValues(Flattened(SeedSchema))
    /\ LET f == update_figure(plot_type, top_line_enabled, selected_columns,
                              trace_properties, config)
       IN  /\ figure = f.fig
           /\ stored_config = StoredAfter(f, values, EmptyDict)
    /\ updated_config = None
    /\ download_data = None
    /\ layout = None
    /\ input_ids = None
    /\ pending = Idle
    /\ last = [event |-> "load", input |-> None, raised |-> {},
               was_open |-> FALSE, was_selected |-> None]
    /\ n_events = 0

\* A settings input changes: update_figure runs over the new values.
SettingsChanged(vals) ==
    LET f == update_figure(plot_type, top_line_enabled, selected_columns, trace_properties,
                           config)
    IN  /\ vals # values
        /\ values' = vals
        /\ figure' = Rebuilt(f)
        /\ stored_config' = StoredAfter(f, vals, stored_config)
        /\ last' = Event("settings", None, RaisedBy("update_figure", f))
        /\ UNCHANGED <<config, plot_type, top_line_enabled, selected_columns,
                       trace_properties, selected_trace, container_style,
                       container_children, clickData, updated_config, download_data>>

\* The style inputs change while "selected-trace" holds trace_name:
\* update_trace_style runs, and the store it returns triggers update_figure.
TraceStyled(trace_name, e) ==
    LET r == update_trace_style(e.color, e.line_width, e.marker_size, e.dash, e.opacity,
                                trace_name, trace_properties, config)
        f == update_figure(plot_type, top_line_enabled, selected_columns, r.data, config)
    IN  /\ trace_properties' = r.data
        /\ figure' = IF r.raised THEN figure ELSE Rebuilt(f)
        /\ stored_config' = IF r.raised THEN stored_config
                            ELSE StoredAfter(f, values, stored_config)
        /\ last' = Event("style_edit", [edit |-> e, trace_name |-> trace_name],
                         RaisedBy("update_trace_style", r)
                           \cup (IF r.raised THEN {} ELSE RaisedBy("update_figure", f)))
        /\ UNCHANGED <<config, plot_type, top_line_enabled, selected_columns, selected_trace,
                       container_style, container_children, clickData, values,
                       updated_config, download_data>>

\* The download button: download_combined_zip runs.
Downloaded ==
    LET r == download_combined_zip(1, stored_config, trace_properties)
    IN  /\ download_data' = Apply(r, download_data)
        /\ last' = Event("download", r, {})
        /\ UNCHANGED <<config, plot_type, top_line_enabled, selected_columns,
                       trace_properties, selected_trace, container_style,
                       container_children, clickData, figure, values, updated_config,
                       stored_config>>

\* the file a user makes of the trace_styles.json member of the last download
ExportedFile == Decodable(json_loads(Val(download_data).members[2].content))
Uploads == Payloads \cup (IF download_data = None THEN {} ELSE {ExportedFile})

\* A file is dropped on the upload control, the exported one among them.
Uploaded(payload) ==
    /\ StylesUploaded(payload)
    /\ stored_config' = IF load_trace_styles(Some(payload)).update
                        THEN StoredAfter(update_figure(plot_type, top_line_enabled,
                                                       selected_columns, trace_properties',
                                                       config),
                                         values, stored_config)
                        ELSE stored_config
    /\ UNCHANGED <<values, updated_config, download_data>>

Exchanged(event) ==
    /\ n_events < MaxExchanges
    /\ event
    /\ n_events' = n_events + 1
    /\ UNCHANGED <<layout, input_ids, pending>>

NextTransfer ==
    \/ \E vals \in AlignedValues(Flattened(SeedSchema)) : Exchanged(SettingsChanged(vals))
    \/ \E trace_name \in {Some(s) : s \in Series} \cup {None}, e \in StyleEdits :
         Exchanged(TraceStyled(trace_name, e))
    \/ Exchanged(Downloaded)
    \/ \E payload \in Uploads : Exchanged(Uploaded(payload))

SpecTransfer == InitTransfer /\ [][NextTransfer]_vars

----------------------------------------------------------------------------
(* GraphFormatter.create_trace and GraphFormatter.get_style_controls_for_plot_type: *)
(* the trace factory and the style controls the callbacks are handed        *)

\* style.get(f, default)
StyleGet(style, f, default) == IF f \in DOMAIN style THEN style[f] ELSE default

\* style.get("color"): None without the key
StyleColor(style) == IF "color" \in DOMAIN style THEN Some(style["color"]) ELSE None

\* self.df_data.columns[0]
FirstColumn == ColumnNames[1]

\* a go.Scatter or go.Bar, as the arguments it is constructed with
Trace(type, base_config, mode, fill, line, marker) ==
    [type |-> type, name |-> base_config.name, opacity |-> base_config.opacity,
     mode |-> mode, fill |-> fill, line |-> line, marker |-> marker]

LineOf(style) ==
    Some([color |-> StyleColor(style),
          width |-> StyleGet(style, "width", 2),
          dash |-> StyleGet(style, "dash", "solid")])

create_trace(col, pt, style) ==
    LET base_config == [name |-> col, opacity |-> StyleGet(style, "opacity", 100)]
    IN  IF pt = Some("line")
        THEN Trace("scatter", base_config, Some("lines+markers"), None, LineOf(style), None)
        ELSE IF pt = Some("bar")
        THEN Trace("bar", base_config, None, None, None,
                   Some([color |-> StyleColor(style), size |-> None,
                         line_width |-> StyleGet(style, "width", 0)]))
        ELSE IF pt = Some("scatter")
        THEN Trace("scatter", base_config, Some("markers"), None, None,
                   Some([color |-> StyleColor(style),
                         size |-> Some(StyleGet(style, "width", 8)),
                         line_width |-> StyleGet(style, "line_width", 0)]))
        ELSE IF pt = Some("area")
        THEN Trace("scatter", base_config, Some("lines"),
                   Some(IF col # FirstColumn THEN "tonexty" ELSE "tozeroy"),
                   LineOf(style), None)
        ELSE \* Default to line plot
             Trace("scatter", base_config, Some("lines+markers"), None, LineOf(style), None)

\* a component of the popover: what it is, its id, its label text, the value
\* it shows and whether its style is {"display": "none"}
Control(component, id, text, value, hidden) ==
    [component |-> component, id |-> id, text |-> text, value |-> value, hidden |-> hidden]
Label(text) == Control("Label", "", text, PyNone, FALSE)

get_style_controls(pt, current_style) ==
    LET current_color == StyleGet(current_style, "color", DefaultColor)
        current_opacity == StyleGet(current_style, "opacity", 100)
        current_width == StyleGet(current_style, "width",
                                  IF pt \in {Some("line"), Some("area")} THEN 2
                                  ELSE IF pt = Some("scatter") THEN 8 ELSE 0)
        current_dash == StyleGet(current_style, "dash", "solid")
        common_controls ==
            << Label("Color"),
               Control("ColorPicker", "trace-properties-picker", "",
                       PyDict(<<PyEntry("hex", PyStr(current_color))>>), FALSE),
               Label("Opacity"),
               Control("Slider", "trace-opacity", "", PyInt(current_opacity), FALSE) >>
        width(hidden) ==
            Control("Input", "trace-line-width", "", PyInt(current_width), hidden)
        specific_controls ==
            IF pt \in {Some("line"), Some("area")}
            THEN << Label("Line Width"), width(FALSE),
                    Label("Dash Style"),
                    Control("Dropdown", "trace-line-style", "", PyStr(current_dash), FALSE) >>
            ELSE IF pt = Some("bar")
            THEN << Label("Border Width"), width(FALSE),
                    Control("Dropdown", "trace-line-style", "", PyStr("solid"), TRUE) >>
            ELSE IF pt = Some("scatter")
            THEN << Label("Marker Size"), width(FALSE),
                    Label("Marker Border Width"),
                    Control("Dropdown", "trace-line-style", "", PyStr("solid"), TRUE) >>
            ELSE << Label(""), width(TRUE),
                    Label(""),
                    Control("Dropdown", "trace-line-style", "", PyStr(current_dash), TRUE) >>
    IN  common_controls \o specific_controls
          \o << Control("Button", "trace-properties-close", "Close", PyNone, FALSE) >>

----------------------------------------------------------------------------
(* 5. Figure update logic, after the settings are resolved: the figure built *)

\* updated_config[section][setting], a KeyError when either is missing
HasSetting(updated, section, setting) ==
    HasKey(updated, section) /\ HasKey(DictGet(updated, section, EmptyDict), setting)
Setting(updated, section, setting) ==
    DictGet(DictGet(updated, section, EmptyDict), setting, PyNone)

\* updated_config.get("properties", {}).get("plot_type", "line")
BuiltPlotType(updated) ==
    IF ~HasSetting(updated, "properties", "plot_type") THEN Some("line")
    ELSE LET v == Setting(updated, "properties", "plot_type")
         IN  IF isinstance(v, "NoneType") THEN None ELSE Some(v.s)

\* The settings update_layout and add_shape index without a default, as far
\* as the trees of the model carry them: one geometry setting, the texts and
\* the colors.
IndexedSettings ==
    { <<"properties", "width">>,
      <<"title", "text">>, <<"title", "subtitle">>,
      <<"description", "text">>, <<"description", "color">>,
      <<"footnote", "text">>, <<"footnote", "color">>,
      <<"top-line", "enabled">> }

Annotation(text, font_color) == [text |-> text, font_color |-> font_color]

\* annotations=[...]: the three dict literals
Annotations(updated) ==
    << Annotation(<<"<b>", Setting(updated, "title", "text").s, "</b><br><sup>",
                    Setting(updated, "title", "subtitle").s, "</sup>">>, None),
       Annotation(<<Setting(updated, "description", "text").s>>,
                  Some(Setting(updated, "description", "color").s)),
       Annotation(<<"<i>", Setting(updated, "footnote", "text").s, "</i>">>,
                  Some(Setting(updated, "footnote", "color").s)) >>

\* an annotation is added only for a text that is not empty
AnnotationsWithText(updated) ==
    SelectSeq(Annotations(updated),
              LAMBDA a : \E i \in 1..Len(a.text) :
                            a.text[i] \notin {"", "<b>", "</b><br><sup>", "</sup>", "<i>", "</i>"})

Figure(data, annotations, shapes, barmode) ==
    [data |-> data, annotations |-> annotations, shapes |-> shapes, barmode |-> barmode]

build_figure_skipping_empty(updated, cols, store) ==
    LET pt == BuiltPlotType(updated)
    IN  IF \/ Len(cols) > 0 /\ store.kind # "object"
           \/ \E s \in IndexedSettings : ~HasSetting(updated, s[1], s[2])
        THEN [raised |-> TRUE, fig |-> None]
        ELSE [raised |-> FALSE,
              fig |-> Some(Figure(
                  [i \in 1..Len(cols) |->
                      create_trace(cols[i], pt, DictGet(store.items, cols[i], EmptyStyle))],
                  AnnotationsWithText(updated),
                  IF ~Falsy(Setting(updated, "top-line", "enabled"))
                  THEN <<[type |-> "line", xref |-> "paper", yref |-> "paper"]>>
                  ELSE <<>>,
                  IF pt = Some("bar_stacked") THEN Some("stack")
                  ELSE IF pt = Some("bar_grouped") THEN Some("group")
                  ELSE None))]

\* fig = go.Figure() ... return fig
build_figure(updated, cols, store) ==
    LET pt == BuiltPlotType(updated)
    IN  IF \/ Len(cols) > 0 /\ store.kind # "object"
           \/ \E s \in IndexedSettings : ~HasSetting(updated, s[1], s[2])
        THEN [raised |-> TRUE, fig |-> None]
        ELSE [raised |-> FALSE,
              fig |-> Some(Figure(
                  [i \in 1..Len(cols) |->
                      create_trace(cols[i], pt, DictGet(store.items, cols[i], EmptyStyle))],
                  Annotations(updated),
                  IF ~Falsy(Setting(updated, "top-line", "enabled"))
                  THEN <<[type |-> "line", xref |-> "paper", yref |-> "paper"]>>
                  ELSE <<>>,
                  IF pt = Some("bar_stacked") THEN Some("stack")
                  ELSE IF pt = Some("bar_grouped") THEN Some("group")
                  ELSE None))]

----------------------------------------------------------------------------
(* The builder and the style controls on their own: resolved settings, a    *)
(* selection and a store are handed over, update_figure builds the chart    *)
(* and toggle_trace_picker derives the controls of a series                 *)

\* the dropdown's options, the monolith's "bar" and a type no branch knows
BuildPlotTypes == PlotTypes \cup {"bar", "pie"}

Texts == {"", "Source: survey"}

SettingsTree(pt, description_text, footnote_text, enabled) ==
    << [k |-> "properties", v |-> << [k |-> "plot_type", v |-> pt],
                                     [k |-> "width", v |-> PyInt(800)] >>],
       [k |-> "title", v |-> << [k |-> "text", v |-> PyStr("Chart")],
                                [k |-> "subtitle", v |-> PyStr("")] >>],
       [k |-> "description", v |-> << [k |-> "text", v |-> PyStr(description_text)],
                                      [k |-> "color", v |-> PyStr("#444444")] >>],
       [k |-> "footnote", v |-> << [k |-> "text", v |-> PyStr(footnote_text)],
                                   [k |-> "color", v |-> PyStr("#888888")] >>],
       [k |-> "top-line", v |-> << [k |-> "enabled", v |-> PyBool(enabled)] >>] >>

\* the trees update_figure resolves: every plot type (None when the dropdown
\* is cleared), and one whose configuration has no footnote section
ResolvedSettings ==
    { SettingsTree(pt, d, f, e) :
        pt \in {PyStr(p) : p \in BuildPlotTypes} \cup {PyNone},
        d \in Texts, f \in Texts, e \in BOOLEAN }
    \cup { SelectSeq(SettingsTree(PyStr("line"), "", "", FALSE),
                     LAMBDA sec : sec.k # "footnote") }

\* a style as the monolith keeps it, and one as update_trace_style writes it
BuildStyles ==
    { [f \in {"color", "opacity", "width", "dash"} |->
          CASE f = "color" -> "#00CC96" [] f = "opacity" -> 80
            [] f = "width" -> 5 [] f = "dash" -> "dot"],
      StyleData(Some("#EF553B"), Some(4), Some(12), Some("dash"), Some(50), "line") }

BuildStores ==
    {ObjectStore(EmptyDict), ArrayStore}
    \cup { ObjectStore(<<[k |-> FirstColumn, v |-> st]>>) : st \in BuildStyles }
    \cup { ObjectStore([i \in 1..NumSeries |-> [k |-> ColumnNames[i], v |-> st]]) :
             st \in BuildStyles }

Selections ==
    { cols \in UNION { [1..n -> Series] : n \in 0..NumSeries } :
        \A a, b \in 1..Len(cols) : cols[a] = cols[b] => a = b }

InitBuild ==
    /\ updated_config \in {Some(t) : t \in ResolvedSettings}
    /\ plot_type = BuiltPlotType(Val(updated_config))
    /\ selected_columns \in Selections
    /\ trace_properties \in BuildStores
    /\ config = [properties_plot_type |-> "line", plot_settings_type |-> None,
                 complete |-> TRUE]
    /\ top_line_enabled = <<>>
    /\ selected_trace = None
    /\ container_style = StyleNone
    /\ container_children = None
    /\ clickData = None
    /\ figure = None
    /\ n_events = 0
    /\ values = <<>>
    /\ stored_config = EmptyDict
    /\ download_data = None
    /\ layout = None
    /\ input_ids = None
    /\ pending = Idle
    /\ last = [event |-> "load", input |-> None, raised |-> {},
               was_open |-> FALSE, was_selected |-> None]

\* update_figure builds the chart from the resolved settings.
FigureBuilt ==
    LET f == build_figure(Val(updated_config), selected_columns, trace_properties)
    IN  /\ figure' = Rebuilt(f)
        /\ last' = Event("build", None, RaisedBy("update_figure", f))
        /\ UNCHANGED <<config, plot_type, top_line_enabled, selected_columns, trace_properties,
                       selected_trace, container_style, container_children, clickData,
                       n_events, values, updated_config, stored_config, download_data,
                       layout, input_ids, pending>>

\* toggle_trace_picker opens the popover on a series: the controls are derived
\* from the plot type and the style the store has for it.
ControlsDerived(trace_name) ==
    /\ trace_properties.kind = "object"
    /\ selected_trace' = Some(trace_name)
    /\ container_style' = StyleBlock
    /\ container_children' =
          Some(get_style_controls(IF plot_type = None
                                  THEN Some(config.properties_plot_type)
                                  ELSE plot_type,
                                  DictGet(trace_properties.items, trace_name, EmptyStyle)))
    /\ last' = Event("controls", Some(trace_name), {})
    /\ UNCHANGED <<config, plot_type, top_line_enabled, selected_columns, trace_properties,
                   clickData, figure, n_events, values, updated_config, stored_config,
                   download_data, layout, input_ids, pending>>

NextBuild ==
    \/ FigureBuilt
    \/ \E trace_name \in Series : ControlsDerived(trace_name)

SpecBuild == InitBuild /\ [][NextBuild]_vars

----------------------------------------------------------------------------
(* LayoutBuilder.create_collapsible_section: the controls of the settings *)

\* "color" in setting, "plot_type" in setting, "file_format" in setting: the
\* setting names of the model that hold the marker
NamesHolding(marker) ==
    CASE marker = "color" -> {"color", "paper_bgcolor", "plot_bgcolor"}
      [] marker = "plot_type" -> {"plot_type"}
      [] marker = "file_format" -> {"file_format"}

\* the html.Div appended for a setting: its label, and the component by its
\* kind, the ids of its inputs, the value it starts with and the text it shows
Row(setting, kind, ids, value, text) ==
    [label |-> setting, kind |-> kind, ids |-> ids, value |-> value, text |-> text]

InputRow(section_name, setting, value) ==
    LET input_id == <<section_name, "-", setting>>
    IN  IF isinstance(value, "bool")
        THEN Row(setting, "Checklist", <<input_id>>,
                 IF value.b THEN PyList(<<PyStr("on")>>) ELSE PyList(<<>>), <<>>)
        ELSE IF isinstance(value, "int")
        THEN Row(setting, "NumberInput", <<input_id>>, value, <<>>)
        ELSE IF isinstance(value, "str") /\ setting \in NamesHolding("color")
        THEN Row(setting, "ColorPicker", <<input_id>>,
                 PyDict(<<PyEntry("hex", value)>>), <<>>)
        ELSE IF isinstance(value, "str") /\ setting \in NamesHolding("plot_type")
        THEN Row(setting, "PlotTypeDropdown", <<input_id>>, value, <<>>)
        ELSE IF isinstance(value, "str") /\ setting \in NamesHolding("file_format")
        THEN Row(setting, "FileFormatDropdown", <<input_id>>, value, <<>>)
        ELSE IF isinstance(value, "str")
        THEN Row(setting, "TextInput", <<input_id>>, value, <<>>)
        ELSE IF isinstance(value, "list") /\ Len(value.items) = 2
        THEN Row(setting, "RangeInputs", <<input_id \o <<"_0">>, input_id \o <<"_1">>>>,
                 value, <<>>)
        ELSE Row(setting, "Div", <<>>, PyNone, <<"Unsupported type for ", setting>>)

RECURSIVE UpToUnsupported(_, _)
UpToUnsupported(section_name, settings) ==
    IF settings = <<>> THEN <<>>
    ELSE LET row == InputRow(section_name, Head(settings).k, Head(settings).v)
         IN  IF row.kind = "Div" THEN <<>>
             ELSE <<row>> \o UpToUnsupported(section_name, Tail(settings))

\* the loop stops at the first value it has no control for
create_collapsible_section_aborting(section_name, settings) ==
    [toggle_id |-> <<section_name, "-toggle">>,
     container_id |-> <<section_name, "-container">>,
     inputs |-> UpToUnsupported(section_name, settings)]

create_collapsible_section(section_name, settings) ==
    [toggle_id |-> <<section_name, "-toggle">>,
     container_id |-> <<section_name, "-container">>,
     inputs |-> [j \in 1..Len(settings) |->
                    InputRow(section_name, settings[j].k, settings[j].v)]]

\* [self.create_collapsible_section(section, settings) for section, settings in
\*  self.config.items()]
Sections(cfg) == [i \in 1..Len(cfg) |-> create_collapsible_section(cfg[i].k, cfg[i].v)]

\* an Input: the id of a component and the property listened to
Input(id, property) == [id |-> id, property |-> property]

\* the Inputs of the settings of one section
RECURSIVE SectionInputs(_, _)
SectionInputs(section, settings) ==
    IF settings = <<>> THEN <<>>
    ELSE LET setting == Head(settings).k
             value == Head(settings).v
         IN  (IF isinstance(value, "list") /\ Len(value.items) = 2
              THEN << Input(<<section, "-", setting, "_0">>, "value"),
                      Input(<<section, "-", setting, "_1">>, "value") >>
              ELSE << Input(<<section, "-", setting>>, "value") >>)
             \o SectionInputs(section, Tail(settings))

RECURSIVE SettingInputs(_)
SettingInputs(cfg) ==
    IF cfg = <<>> THEN <<>>
    ELSE SectionInputs(Head(cfg).k, Head(cfg).v) \o SettingInputs(Tail(cfg))

build_input_ids(cfg) ==
    SettingInputs(cfg)
      \o << Input(<<"data-table">>, "selected_columns"), Input(<<"trace-properties">>, "data") >>

----------------------------------------------------------------------------
(* The layout on its own: a schema is handed over, the sections are built *)

\* settings of every kind the loop tells apart, and three it has no control for
LayoutPool ==
    (SettingPool \ {[k |-> "enabled", v |-> PyBool(FALSE)]})
    \cup { [k |-> "plot_type", v |-> PyStr("line")],
           [k |-> "ticks", v |-> PyList(<<PyInt(0), PyInt(5), PyInt(10)>>)],
           [k |-> "font", v |-> PyDict(<<PyEntry("size", PyInt(12))>>)],
           [k |-> "unit", v |-> PyNone] }

LayoutSettingSeqs ==
    { fs \in UNION { [1..n -> LayoutPool] : n \in 0..MaxFields } :
        \A a, b \in 1..Len(fs) : fs[a].k = fs[b].k => a = b }

\* self.config: two sections, the first j settings in the first
LayoutSchema(fs, j) ==
    << [k |-> "properties", v |-> SubSeq(fs, 1, j)],
       [k |-> "top-line", v |-> SubSeq(fs, j + 1, Len(fs))] >>

InitLayout ==
    /\ \E fs \in LayoutSettingSeqs : \E j \in 0..Len(fs) : config = LayoutSchema(fs, j)
    /\ values = <<>>
    /\ updated_config = None
    /\ last = [event |-> "load", input |-> None, raised |-> {},
               was_open |-> FALSE, was_selected |-> None]
    /\ AtRest

\* build_layout builds one collapsible section per section of the schema.
LayoutBuilt ==
    /\ layout = None
    /\ layout' = Some(Sections(config))
    /\ last' = Event("layout", None, {})
    /\ UNCHANGED <<config, plot_type, top_line_enabled, selected_columns, trace_properties,
                   selected_trace, container_style, container_children, clickData, figure,
                   n_events, values, updated_config, stored_config, download_data,
                   input_ids, pending>>

\* build_input_ids lists the Inputs update_figure is registered on.
InputIdsBuilt ==
    /\ input_ids = None
    /\ input_ids' = Some(build_input_ids(config))
    /\ last' = Event("input_ids", None, {})
    /\ UNCHANGED <<config, plot_type, top_line_enabled, selected_columns, trace_properties,
                   selected_trace, container_style, container_children, clickData, figure,
                   n_events, values, updated_config, stored_config, download_data, layout, pending>>

NextLayout ==
    \/ LayoutBuilt
    \/ InputIdsBuilt

SpecLayout == InitLayout /\ [][NextLayout]_vars

----------------------------------------------------------------------------
(* A style edit followed by the build it triggers: update_trace_style writes *)
(* the record, update_figure builds the traces from the store it returns    *)

\* an edit with every input set, and the edits with inputs left empty
EditsHanded == StyleEdits \cup {Edit(Some("#AB63FA"), Some(3), Some(10), Some("dashdot"), Some(70))}

InitStyle ==
    /\ config \in {c \in Configs : c.complete}
    /\ updated_config \in {Some(SettingsTree(PyStr(p), "", "", FALSE)) : p \in BuildPlotTypes}
    /\ plot_type = BuiltPlotType(Val(updated_config))
    /\ selected_columns \in Selections
    /\ trace_properties \in BuildStores
    /\ selected_trace \in {None} \cup {Some(s) : s \in Series}
    /\ container_style = IF selected_trace = None THEN StyleNone ELSE StyleBlock
    /\ container_children =
          IF selected_trace = None \/ trace_properties.kind # "object" THEN None
          ELSE Some(get_style_controls(plot_type, DictGet(trace_properties.items,
                                                          Val(selected_trace), EmptyStyle)))
    /\ figure = build_figure(Val(updated_config), selected_columns, trace_properties).fig
    /\ top_line_enabled = <<>>
    /\ clickData = None
    /\ n_events = 0
    /\ values = <<>>
    /\ stored_config = EmptyDict
    /\ download_data = None
    /\ layout = None
    /\ input_ids = None
    /\ pending = Idle
    /\ last = [event |-> "load", input |-> None, raised |-> {},
               was_open |-> FALSE, was_selected |-> None]

\* The style inputs change: update_trace_style runs, and the store it returns
\* triggers update_figure, which builds the traces with the trace factory.
StyleBuilt(e) ==
    LET r == update_trace_style(e.color, e.line_width, e.marker_size, e.dash, e.opacity,
                                selected_trace, trace_properties, config)
        f == build_figure(Val(updated_config), selected_columns, r.data)
    IN  /\ trace_properties' = r.data
        /\ figure' = IF r.raised THEN figure ELSE Rebuilt(f)
        /\ last' = Event("style_edit", e,
                         RaisedBy("update_trace_style", r)
                           \cup (IF r.raised THEN {} ELSE RaisedBy("update_figure", f)))
        /\ UNCHANGED <<config, plot_type, top_line_enabled, selected_columns, selected_trace,
                       container_style, container_children, clickData, n_events, values,
                       updated_config, stored_config, download_data, layout, input_ids, pending>>

NextStyle == \E e \in EditsHanded : StyleBuilt(e)

SpecStyle == InitStyle /\ [][NextStyle]_vars

----------------------------------------------------------------------------
(* The callbacks one at a time: a user event changes a property, the       *)
(* callbacks with an Input on it are triggered, and each callback run       *)
(* triggers the callbacks with an Input on the outputs it updated           *)

\* every output is an Input of toggle_trace_picker as well
ListenersLooping(property) ==
    CASE property \in {"figure.clickData", "trace-properties-close.n_clicks"} ->
           {"toggle_trace_picker"}
      [] property = "properties-plot_type.value" -> {"toggle_trace_picker", "update_figure"}
      [] property \in {"trace-color-picker.value", "trace-line-width.value",
                       "trace-marker-size.value", "trace-line-style.value",
                       "trace-opacity.value"} -> {"update_trace_style"}
      [] property \in {"top-line-enabled.value", "data-table.selected_columns"} ->
           {"update_figure"}
      [] property = "trace-properties.data" -> {"update_figure"}
      [] property = "upload-trace-styles.contents" -> {"load_trace_styles"}
      [] OTHER -> {"toggle_trace_picker"}

\* the callbacks registered with an Input on the property
Listeners(property) ==
    CASE property \in {"figure.clickData", "trace-properties-close.n_clicks"} ->
           {"toggle_trace_picker"}
      [] property = "properties-plot_type.value" -> {"toggle_trace_picker", "update_figure"}
      [] property \in {"trace-color-picker.value", "trace-line-width.value",
                       "trace-marker-size.value", "trace-line-style.value",
                       "trace-opacity.value"} -> {"update_trace_style"}
      [] property \in {"top-line-enabled.value", "data-table.selected_columns"} ->
           {"update_figure"}
      [] property = "trace-properties.data" -> {"update_figure"}
      [] property = "upload-trace-styles.contents" -> {"load_trace_styles"}
      [] OTHER -> {}

\* the callbacks a changed property triggers, each with the component that
\* triggered it (ctx.triggered_id)
TriggeredBy(component, property) ==
    {[callback |-> c, by |-> component] : c \in Listeners(property)}

\* the values of the five style inputs and the contents of the upload, as the
\* browser holds them
Held(style_inputs, contents) ==
    [triggered |-> {}, ran |-> {}, style_inputs |-> style_inputs, contents |-> contents]

Posted(component, property, held) ==
    [held EXCEPT !.triggered = TriggeredBy(component, property)]

Done(entry, new, style_inputs) ==
    [pending EXCEPT !.triggered = (@ \ {entry}) \cup new,
                    !.ran = @ \cup {entry.callback},
                    !.style_inputs = style_inputs]

InitReact ==
    /\ config \in Configs
    /\ plot_type = Some(config.properties_plot_type)
    /\ top_line_enabled = <<>>
    /\ selected_columns = <<>>
    /\ trace_properties = ObjectStore(EmptyDict)
    /\ selected_trace = None
    /\ container_style = StyleNone
    /\ container_children = None
    /\ clickData = None
    /\ figure = update_figure(plot_type, top_line_enabled, selected_columns,
                              trace_properties, config).fig
    /\ last = [event |-> "load", input |-> None, raised |-> {},
               was_open |-> FALSE, was_selected |-> None]
    /\ n_events = 0
    /\ values = <<>>
    /\ updated_config = None
    /\ stored_config = EmptyDict
    /\ download_data = None
    /\ layout = None
    /\ input_ids = None
    /\ pending = Held(Edit(None, None, None, None, None), None)

\* A user event: it arrives when no callback is waiting, changes the property
\* of one component and triggers the callbacks listening to it.
UserEvent(name, component, property, held) ==
    /\ pending.triggered = {}
    /\ n_events < MaxUserEvents
    /\ n_events' = n_events + 1
    /\ last' = Event(name, None, {})
    /\ pending' = Posted(component, property, held)
    /\ UNCHANGED <<config, trace_properties, selected_trace, container_style,
                   container_children, figure, values, updated_config, stored_config,
                   download_data, layout, input_ids>>

UserClicked(curve_idx) ==
    /\ UserEvent("click", "figure", "figure.clickData",
                 Held(pending.style_inputs, pending.contents))
    /\ clickData' = Some(curve_idx)
    /\ UNCHANGED <<plot_type, top_line_enabled, selected_columns>>

UserClosed ==
    /\ UserEvent("close", "trace-properties-close", "trace-properties-close.n_clicks",
                 Held(pending.style_inputs, pending.contents))
    /\ UNCHANGED <<clickData, plot_type, top_line_enabled, selected_columns>>

UserChangedPlotType(pt) ==
    /\ pt # plot_type
    /\ UserEvent("plot_type", "properties-plot_type", "properties-plot_type.value",
                 Held(pending.style_inputs, pending.contents))
    /\ plot_type' = pt
    /\ UNCHANGED <<clickData, top_line_enabled, selected_columns>>

UserToggledColumn(col) ==
    /\ UserEvent("columns", "data-table", "data-table.selected_columns",
                 Held(pending.style_inputs, pending.contents))
    /\ selected_columns' = Toggled(selected_columns, col)
    /\ UNCHANGED <<clickData, plot_type, top_line_enabled>>

UserEditedSettings ==
    /\ UserEvent("settings", "top-line-enabled", "top-line-enabled.value",
                 Held(pending.style_inputs, pending.contents))
    /\ top_line_enabled' = IF top_line_enabled = <<>> THEN <<"on">> ELSE <<>>
    /\ UNCHANGED <<clickData, plot_type, selected_columns>>

UserEditedStyle(e) ==
    /\ UserEvent("style_edit", "trace-color-picker", "trace-color-picker.value",
                 Held(e, pending.contents))
    /\ UNCHANGED <<clickData, plot_type, top_line_enabled, selected_columns>>

UserUploaded(payload) ==
    /\ UserEvent("upload", "upload-trace-styles", "upload-trace-styles.contents",
                 Held(pending.style_inputs, Some(payload)))
    /\ UNCHANGED <<clickData, plot_type, top_line_enabled, selected_columns>>

\* the frame of a callback run: the inputs of the user stay as they are
Ran(entry, new, raised, style_inputs) ==
    /\ entry \in pending.triggered
    /\ pending' = Done(entry, new, style_inputs)
    /\ last' = [last EXCEPT !.raised = @ \cup raised]
    /\ UNCHANGED <<config, plot_type, top_line_enabled, selected_columns, clickData,
                   n_events, values, updated_config, stored_config, download_data, layout,
                   input_ids>>

\* toggle_trace_picker runs.  None of its outputs is an Input of a callback;
\* the children it returns hold the style inputs, whose insertion Dash may
\* report to update_trace_style as a change (inserted) of their values (e).
PickerRan(by, inserted, e) ==
    LET r == toggle_trace_picker(Some(by), clickData, plot_type, container_style, figure,
                                 trace_properties, config)
    IN  /\ Ran([callback |-> "toggle_trace_picker", by |-> by],
               TriggeredBy("trace-properties-picker-container",
                           "trace-properties-picker-container.style")
                 \cup (IF r.children.update /\ inserted
                       THEN TriggeredBy("trace-color-picker", "trace-color-picker.value")
                       ELSE {}),
               RaisedBy("toggle_trace_picker", r),
               IF r.children.update /\ inserted THEN e ELSE pending.style_inputs)
        /\ PickerOutputs(r)
        /\ UNCHANGED <<trace_properties, figure>>

\* update_trace_style runs on the values of the style inputs.
StyleRan(by) ==
    LET e == pending.style_inputs
        r == update_trace_style(e.color, e.line_width, e.marker_size, e.dash, e.opacity,
                                selected_trace, trace_properties, config)
    IN  /\ Ran([callback |-> "update_trace_style", by |-> by],
               IF r.raised THEN {} ELSE TriggeredBy("trace-properties", "trace-properties.data"),
               RaisedBy("update_trace_style", r), e)
        /\ trace_properties' = r.data
        /\ UNCHANGED <<selected_trace, container_style, container_children, figure>>

\* load_trace_styles runs on the uploaded contents.
UploadRan(by) ==
    LET r == load_trace_styles(pending.contents)
    IN  /\ Ran([callback |-> "load_trace_styles", by |-> by],
               IF r.update THEN TriggeredBy("trace-properties", "trace-properties.data")
               ELSE {},
               {}, pending.style_inputs)
        /\ trace_properties' = Apply(r, trace_properties)
        /\ UNCHANGED <<selected_trace, container_style, container_children, figure>>

\* update_figure runs: its outputs are the figure and the stored configuration.
FigureRan(by) ==
    LET f == update_figure(plot_type, top_line_enabled, selected_columns, trace_properties,
                           config)
    IN  /\ Ran([callback |-> "update_figure", by |-> by],
               IF f.raised THEN {}
               ELSE TriggeredBy("figure", "figure.figure")
                      \cup TriggeredBy("stored-config", "stored-config.data"),
               RaisedBy("update_figure", f), pending.style_inputs)
        /\ figure' = Rebuilt(f)
        /\ UNCHANGED <<trace_properties, selected_trace, container_style, container_children>>

Components ==
    {"figure", "trace-properties-close", "properties-plot_type", "trace-color-picker",
     "trace-properties", "data-table", "top-line-enabled", "upload-trace-styles",
     "trace-properties-picker-container", "stored-config"}

\* the dispatcher runs one of the triggered callbacks
Dispatched ==
    \E by \in Components :
        \/ PickerRan(by, FALSE, pending.style_inputs)
        \/ \E e \in StyleEdits : PickerRan(by, TRUE, e)
        \/ StyleRan(by)
        \/ UploadRan(by)
        \/ FigureRan(by)

NextReact ==
    \/ \E curve_idx \in CurveNumbers : UserClicked(curve_idx)
    \/ UserClosed
    \/ \E pt \in PlotTypeValues : UserChangedPlotType(pt)
    \/ \E col \in Series : UserToggledColumn(col)
    \/ UserEditedSettings
    \/ \E e \in StyleEdits : UserEditedStyle(e)
    \/ \E payload \in Payloads : UserUploaded(payload)
    \/ Dispatched

\* every triggered callback is run
SpecReact == InitReact /\ [][NextReact]_vars /\ WF_pending(Dispatched)

----------------------------------------------------------------------------
(* Properties *)

Open == container_style.display = "block"
StoreKeys == KeySet(trace_properties.items)
Rendered == IF figure = None THEN {}
            ELSE {Val(figure).data[i].name : i \in 1..Len(Val(figure).data)}
StyleOf(store, s) == DictGet(store.items, s, EmptyStyle)

\* C1: a chart click whose curve number cannot be resolved against the rendered
\* figure (no figure, or an index past its traces) raises nothing and leaves the
\* popover's visibility, its controls and the selected trace as they were.
C1_StaleClickIsNoOp ==
    [][ (last'.event = "click" /\ StaleClick(last'.input, figure))
        => /\ container_style' = container_style
           /\ container_children' = container_children
           /\ selected_trace' = selected_trace
           /\ last'.raised = {} ]_vars

C1_Witness ==
    /\ last.event = "click"
    /\ figure # None
    /\ StaleClick(last.input, figure)
    /\ last.was_open
    /\ Open
    /\ selected_trace # None

\* C2: a plot-type change met with the popover open on series s keeps it open
\* and keeps s selected while s is still displayed; otherwise the first key of
\* the store is selected, and with an empty store too nothing changes.
C2_PlotTypeChangeKeepsSelection ==
    [][ (last'.event = "plot_type" /\ Open /\ selected_trace # None)
        => /\ container_style'.display = "block"
           /\ IF Val(selected_trace) \in Rendered
              THEN selected_trace' = selected_trace
              ELSE IF trace_properties.kind = "object" /\ Len(trace_properties.items) > 0
              THEN selected_trace' = Some(trace_properties.items[1].k)
              ELSE /\ selected_trace' = selected_trace
                   /\ container_children' = container_children
                   /\ container_style' = container_style ]_vars

\* C3: with the popover closed, a plot-type change or a close-button event
\* leaves it closed and leaves no trace selected.
C3_ClosedIgnoresOtherEvents ==
    [][ (last'.event \in {"plot_type", "close"} /\ ~Open)
        => (container_style'.display = "none" /\ selected_trace' = None) ]_vars

\* C4: after a close-button event, from whatever state, the popover is hidden
\* and no trace is selected.
C4_CloseHidesAndClears ==
    last.event = "close" => (container_style.display = "none" /\ selected_trace = None)

C4_Witness ==
    /\ last.event = "close"
    /\ last.was_open
    /\ last.was_selected # None
    /\ ~Open
    /\ selected_trace = None

\* C5: a style edit met with no trace selected returns the store it was given:
\* the same keys with the same records.
C5_EditWithoutSelectionIsNoOp ==
    [][ (last'.event = "style_edit" /\ selected_trace = None)
        => (trace_properties' = trace_properties
            /\ "update_trace_style" \notin last'.raised) ]_vars

C5_Witness ==
    /\ last.event = "style_edit"
    /\ last.was_selected = None
    /\ trace_properties.kind = "object"
    /\ Len(trace_properties.items) > 0

\* C6: a style edit met with series s selected changes at most the entry keyed
\* s: every other key stays, with its record, and no other key appears.
C6_EditTouchesOnlySelected ==
    [][ (last'.event = "style_edit" /\ selected_trace # None)
        => /\ trace_properties'.kind = trace_properties.kind
           /\ \A k \in (StoreKeys \cup StoreKeys') \ {Val(selected_trace)} :
                /\ k \in StoreKeys
                /\ k \in StoreKeys'
                /\ StyleOf(trace_properties', k) = StyleOf(trace_properties, k) ]_vars

C6_Witness ==
    /\ last.event = "style_edit"
    /\ last.was_selected # None
    /\ "update_trace_style" \notin last.raised
    /\ Val(last.was_selected) \in StoreKeys
    /\ \E k \in StoreKeys : k # Val(last.was_selected)

\* The style fields an edit carries: color and opacity always (C9), the others
\* when their incoming value is not null; there is no input for symbol.
Carries(e, f) ==
    \/ f \in {"color", "opacity"}
    \/ f \in {"line_width", "marker_size", "dash"} /\ e[f] # None

\* C7: a style edit of a series that has a record keeps every field of that
\* record that the edit does not carry.
C7_EditMerges ==
    [][ (/\ last'.event = "style_edit"
         /\ selected_trace # None
         /\ Val(selected_trace) \in StoreKeys)
        => LET s == Val(selected_trace)
               old == StyleOf(trace_properties, s)
               new == StyleOf(trace_properties', s)
           IN  \A f \in DOMAIN old :
                 ~Carries(last'.input, f) => (f \in DOMAIN new /\ new[f] = old[f]) ]_vars

Requires(pt, f) ==
    \/ pt \in {"line", "area"} /\ f \in {"line_width", "dash"}
    \/ pt = "scatter" /\ f \in {"marker_size", "symbol"}

Incoming(e, f) == IF f = "symbol" THEN None ELSE e[f]

\* C8: a style edit writes line_width, marker_size, dash or symbol into the
\* record of a series that had none only if the incoming value is not null or
\* the plot type (the live one, or the one the handler reads) requires the field.
C8_ConditionalWrite ==
    [][ (/\ last'.event = "style_edit"
         /\ selected_trace # None
         /\ trace_properties.kind = "object"
         /\ Val(selected_trace) \notin StoreKeys)
        => LET new == StyleOf(trace_properties', Val(selected_trace))
           IN  \A f \in {"line_width", "marker_size", "dash", "symbol"} :
                 f \in DOMAIN new
                   => \/ Incoming(last'.input, f) # None
                      \/ Requires(SeedPlotType(config), f)
                      \/ (plot_type # None /\ Requires(Val(plot_type), f)) ]_vars

\* C9: after a style edit met with a series selected, that series' record has
\* color and opacity: the incoming values, "#636EFA" for a null color and 1.0
\* for a null opacity, an opacity of 0 being kept.
C9_EditWritesColorAndOpacity ==
    (last.event = "style_edit" /\ last.was_selected # None)
        => LET s == Val(last.was_selected)
               e == last.input
               rec == StyleOf(trace_properties, s)
           IN  /\ s \in StoreKeys
               /\ {"color", "opacity"} \subseteq DOMAIN rec
               /\ rec["color"] = (IF e.color = None THEN DefaultColor ELSE Val(e.color))
               /\ rec["opacity"] = (IF e.opacity = None THEN 100 ELSE Val(e.opacity))

\* C10: no event other than an import removes a key from the store; a key
\* stays although its series is no longer among the selected columns.
C10_StoreNeverPruned ==
    [][ last'.event # "upload" => StoreKeys \subseteq StoreKeys' ]_vars

C10_Witness ==
    /\ last.event = "columns"
    /\ last.input \in StoreKeys
    /\ ~SeqContains(selected_columns, last.input)

\* C11: an import whose bytes do not decode as UTF-8 JSON ends in
\* PreventUpdate, the handler's way of failing: the store is exactly the one
\* the import met, no key added, changed or removed, and the chart is not
\* rebuilt.
C11_UndecodableImportKeepsStore ==
    [][ (last'.event = "upload" /\ ~last'.input.contents.decodes)
        => /\ load_trace_styles(Some(last'.input.contents)) = NoUpdate
           /\ trace_properties' = trace_properties
           /\ figure' = figure ]_vars

C11_Witness ==
    /\ last.event = "upload"
    /\ ~last.input.contents.decodes
    /\ last.input.replaced.kind = "object"
    /\ KeySet(last.input.replaced.items) # {}
    /\ trace_properties = last.input.replaced

\* C12: an import that decodes to JSON which is not an object is rejected:
\* the store keeps the contents the import met and is still a mapping.
C12_NonObjectImportRejected ==
    [][ (/\ last'.event = "upload"
         /\ last'.input.contents.decodes
         /\ last'.input.contents.json.kind # "object"
         /\ trace_properties.kind = "object")
        => /\ trace_properties' = trace_properties
           /\ trace_properties'.kind = "object" ]_vars

KeyLost ==
    KeySet(last.input.replaced.items) \ KeySet(last.input.contents.json.items) # {}
RecordReplaced ==
    \E s \in KeySet(last.input.replaced.items) \cap KeySet(last.input.contents.json.items) :
        DOMAIN DictGet(last.input.replaced.items, s, EmptyStyle)
            \ DOMAIN DictGet(last.input.contents.json.items, s, EmptyStyle) # {}

C15_DownloadAlwaysBundles ==
    (last.event = "download" /\ figure # None)
        => /\ last.input.update
           /\ download_data = Some(Bundle(yaml_dump(stored_config),
                                          json_dumps(trace_properties)))

\* The loop has run over the values and built a tree.
Resolved == last.event \in {"resolve", "permute"} /\ updated_config # None
Tree == Val(updated_config)
Declared == Flattened(config)
Assigned == Flattened(Tree)
\* the raw values at the inputs of the g-th declared setting
RawOf(g) == SubSeq(values, Offset(Declared, g) + 1,
                   Offset(Declared, g) + Width(Declared[g].v))
IsBoolean(g) == isinstance(Declared[g].v, "bool")
IsColor(g) == isinstance(Declared[g].v, "str") /\ Declared[g].k \in ColorSettings
IsRange(g) == Width(Declared[g].v) = 2
SameShape ==
    /\ Len(Tree) = Len(config)
    /\ \A sec \in 1..Len(config) :
         /\ Tree[sec].k = config[sec].k
         /\ DictKeys(Tree[sec].v) = DictKeys(config[sec].v)

\* C16: handed as many raw values as the schema has inputs, the loop builds a
\* tree with the schema's sections and settings in declared order; a range
\* setting holds the two values at its inputs "_0" and "_1", in that order,
\* and any other setting the one value at its input (a boolean or color
\* setting what that value resolves to), the inputs counted as the layout
\* lays them out, so that no value serves two settings and none is passed over.
C16_ResolutionRebuildsSchema ==
    (last.event \in {"resolve", "permute"} /\ Len(values) = ImpliedCount(config))
        => /\ updated_config # None
           /\ last.raised = {}
           /\ SameShape
           /\ \A g \in 1..Len(Declared) :
                IF IsRange(g) THEN Assigned[g].v = PyList(RawOf(g))
                ELSE IF IsBoolean(g)
                THEN Assigned[g].v = PyBool(RawOf(g)[1] = PyList(<<PyStr("on")>>))
                ELSE IF IsColor(g) /\ isinstance(RawOf(g)[1], "dict")
                THEN Assigned[g].v = PyGet(RawOf(g)[1], "hex")
                ELSE Assigned[g].v = RawOf(g)[1]

\* a range in the first section, settings after it in both sections
C16_Witness ==
    /\ last.event = "resolve"
    /\ updated_config # None
    /\ Len(values) = ImpliedCount(config)
    /\ Len(config[1].v) = 2
    /\ Len(config[2].v) = 1
    /\ IsRange(1)

\* C17: handed fewer or more raw values than the schema has inputs, the loop
\* raises and builds no tree.
C17_MiscountRaises ==
    (last.event = "resolve" /\ Len(values) # ImpliedCount(config))
        => /\ last.raised # {}
           /\ updated_config = None

\* the value a tree assigns to a setting of a section
Assignment(tree, section, setting) ==
    DictGet(DictGet(tree, section, EmptyDict), setting, PyNone)
SameAssignments(a, b) ==
    /\ KeySet(a) = KeySet(b)
    /\ \A section \in KeySet(a) :
         /\ KeySet(DictGet(a, section, EmptyDict)) = KeySet(DictGet(b, section, EmptyDict))
         /\ \A setting \in KeySet(DictGet(a, section, EmptyDict)) :
              Assignment(a, section, setting) = Assignment(b, section, setting)

\* C18: declaring two neighbouring settings in the other order and moving
\* their raw values with them (a range's two together) resolves to a tree that
\* assigns every setting the value it had.
C18_OrderIndependent ==
    [][ last'.event = "permute"
        => /\ updated_config' # None
           /\ SameAssignments(Val(updated_config), Val(updated_config')) ]_vars

\* a range that stood between two scalar settings now stands before them
C18_Witness ==
    /\ last.event = "permute"
    /\ updated_config # None
    /\ last.input.setting = 1
    /\ LET settings == config[last.input.section].v
       IN  /\ Len(settings) = 3
           /\ Width(settings[1].v) = 2
           /\ Width(settings[2].v) = 1
           /\ Width(settings[3].v) = 1

\* C19: a setting with a boolean default resolves to true when its raw value
\* is a list holding "on" and to false when it is None or an empty list,
\* whichever the default is.
C19_BooleanResolution ==
    Resolved
        => \A g \in 1..Len(Declared) :
             IsBoolean(g)
               => /\ Assigned[g].v \in {PyBool(TRUE), PyBool(FALSE)}
                  /\ Assigned[g].v.b
                       <=> (/\ isinstance(RawOf(g)[1], "list")
                            /\ SeqContains(RawOf(g)[1].items, PyStr("on")))
                  /\ RawOf(g)[1] \in {PyNone, PyList(<<>>)} => ~Assigned[g].v.b

\* a default of true, no raw value, resolved to false
C19_Witness ==
    /\ Resolved
    /\ \E g \in 1..Len(Declared) :
         /\ Declared[g].v = PyBool(TRUE)
         /\ RawOf(g)[1] = PyNone
         /\ Assigned[g].v = PyBool(FALSE)

\* C20: a color setting resolves to the hex string, from the picker's
\* {"hex": h} as from h itself; no setting of the tree holds a dict.
C20_ColorResolution ==
    Resolved
        => /\ \A g \in 1..Len(Declared) :
                IsColor(g)
                  => /\ isinstance(Assigned[g].v, "str")
                     /\ isinstance(RawOf(g)[1], "dict")
                          => Assigned[g].v = PyGet(RawOf(g)[1], "hex")
                     /\ isinstance(RawOf(g)[1], "str") => Assigned[g].v = RawOf(g)[1]
           /\ \A g \in 1..Len(Assigned) : ~isinstance(Assigned[g].v, "dict")

C20_Witness ==
    /\ Resolved
    /\ \E g \in 1..Len(Declared) :
         /\ IsColor(g)
         /\ isinstance(RawOf(g)[1], "dict")
         /\ Assigned[g].v = PyStr("#EF553B")

\* The last event ran update_figure, and it returned a figure.
ChartBuilt ==
    \/ last.event = "load" /\ figure # None
    \/ last.event \in {"columns", "settings", "plot_type"} /\ "update_figure" \notin last.raised
    \/ last.event = "style_edit" /\ last.raised = {}
    \/ /\ last.event = "upload"
       /\ load_trace_styles(Some(last.input.contents)).update
       /\ "update_figure" \notin last.raised

TraceNames == [i \in 1..Len(Val(figure).data) |-> Val(figure).data[i].name]

\* C21: the chart update_figure returns has exactly one trace per selected
\* column, in the order of selected_columns, each named after its column:
\* an entry of the store whose series is not selected adds no trace, and a
\* selected series the store has no entry for still has its trace.
C21_OneTracePerSelectedColumn ==
    ChartBuilt => TraceNames = selected_columns

C21_Witness ==
    /\ ChartBuilt
    /\ trace_properties.kind = "object"
    /\ \E i \in 1..Len(trace_properties.items) :
           ~SeqContains(selected_columns, trace_properties.items[i].k)
    /\ \E i \in 1..Len(selected_columns) :
           ~HasKey(trace_properties.items, selected_columns[i])
    /\ TraceNames = selected_columns

\* C27: the chart update_figure returns has the horizontal reference line
\* exactly when the top-line checkbox handed to that run is ticked; a build
\* after the box is cleared has no line left from an earlier build.
C27_TopLineFollowsFlag ==
    ChartBuilt => (Val(figure).top_line <=> SeqContains(top_line_enabled, "on"))

C27_Witness ==
    /\ ChartBuilt
    /\ last.event = "settings"
    /\ top_line_enabled = <<>>
    /\ ~Val(figure).top_line

\* C28: the chart update_figure returns has bar mode "stack" exactly when the
\* plot type is bar_stacked, "group" exactly when it is bar_grouped, and no
\* bar mode for every other plot type.
C28_BarMode ==
    ChartBuilt =>
        /\ (Val(figure).barmode = Some("stack") <=> plot_type = Some("bar_stacked"))
        /\ (Val(figure).barmode = Some("group") <=> plot_type = Some("bar_grouped"))
        /\ (Val(figure).barmode = None
               <=> plot_type \notin {Some("bar_stacked"), Some("bar_grouped")})

C28_Witness ==
    /\ ChartBuilt
    /\ last.event = "plot_type"
    /\ plot_type = Some("bar_grouped")
    /\ Val(figure).barmode = Some("group")


\* the traces of the chart update_figure built, and the controls of the popover
Traces == Val(figure).data
Controls == Val(container_children)
Unstyled(s) == ~HasKey(trace_properties.items, s)
TraceColor(t) == IF t.line # None THEN Val(t.line).color ELSE Val(t.marker).color

\* C22: in the chart update_figure returns, the geometry of every trace is
\* decided by the plot type alone: line gives lines with markers, scatter
\* markers only, bar_grouped and bar_stacked bars, area a line filled down to
\* zero for every trace, and a plot type no branch knows a plain line.
C22_GeometryByPlotType ==
    figure # None =>
        \A i \in 1..Len(Traces) :
            LET t == Traces[i]
            IN  CASE plot_type = Some("line") ->
                       t.type = "scatter" /\ t.mode = Some("lines+markers")
                  [] plot_type = Some("scatter") ->
                       t.type = "scatter" /\ t.mode = Some("markers")
                  [] plot_type \in {Some("bar_grouped"), Some("bar_stacked")} ->
                       t.type = "bar"
                  [] plot_type = Some("area") ->
                       t.type = "scatter" /\ t.mode = Some("lines") /\ t.fill = Some("tozeroy")
                  [] OTHER ->
                       /\ t.type = "scatter"
                       /\ t.mode \in {Some("lines"), Some("lines+markers")}
                       /\ t.fill = None

\* the value the popover shows in the control with this id, None without one
Shown(id) ==
    IF \E i \in 1..Len(Controls) : Controls[i].id = id
    THEN Some(Controls[CHOOSE i \in 1..Len(Controls) : Controls[i].id = id].value)
    ELSE None
ShownColor ==
    IF \E i \in 1..Len(Controls) : Controls[i].component = "ColorPicker"
    THEN Some(Controls[CHOOSE i \in 1..Len(Controls) :
                          Controls[i].component = "ColorPicker"].value)
    ELSE None

\* C23: for a series the store has no entry for, the trace update_figure
\* builds has color #636EFA, opacity 1.0, line width 2, marker size 8 and dash
\* solid, and the popover shows color #636EFA, opacity 1.0, line width 2,
\* marker size 8, dash solid and symbol circle; with plot type line, the
\* selection ["Series A"] and an empty store the one trace built is a line
\* with markers in color #636EFA.
C23_UnstyledDefaults ==
    /\ figure # None =>
         \A i \in 1..Len(Traces) :
            Unstyled(Traces[i].name) =>
              /\ TraceColor(Traces[i]) = Some(DefaultColor)
              /\ Traces[i].opacity = 100
              /\ Traces[i].line # None =>
                   Val(Traces[i].line).width = 2 /\ Val(Traces[i].line).dash = "solid"
              /\ Traces[i].mode = Some("markers") => Val(Traces[i].marker).size = Some(8)
    /\ (container_children # None /\ Unstyled(Val(selected_trace))) =>
         /\ ShownColor = Some(PyDict(<<PyEntry("hex", PyStr(DefaultColor))>>))
         /\ Shown("trace-opacity") = Some(PyInt(100))
         /\ Shown("trace-line-width") = Some(PyInt(2))
         /\ Shown("trace-marker-size") = Some(PyInt(8))
         /\ Shown("trace-line-style") = Some(PyStr("solid"))
         /\ Shown("trace-marker-symbol") = Some(PyStr("circle"))
    /\ (/\ figure # None
        /\ plot_type = Some("line")
        /\ selected_columns = <<"Series A">>
        /\ trace_properties = ObjectStore(EmptyDict)) =>
         /\ Len(Traces) = 1
         /\ Traces[1].mode = Some("lines+markers")
         /\ TraceColor(Traces[1]) = Some(DefaultColor)

\* the style field a control of the popover edits
ControlField(id) ==
    CASE id \in {"trace-properties-picker", "trace-color-picker"} -> "color"
      [] id = "trace-opacity" -> "opacity"
      [] id = "trace-line-width" -> "line_width"
      [] id = "trace-marker-size" -> "marker_size"
      [] id = "trace-line-style" -> "dash"
      [] id = "trace-marker-symbol" -> "symbol"
      [] OTHER -> id
IsStyleControl(c) == c.component \notin {"Label", "Button"}
ControlFields ==
    {ControlField(Controls[i].id) : i \in {j \in 1..Len(Controls) : IsStyleControl(Controls[j])}}
VisibleFields ==
    {ControlField(Controls[i].id) :
        i \in {j \in 1..Len(Controls) : IsStyleControl(Controls[j]) /\ ~Controls[j].hidden}}

\* C24: the style controls derived for plot type line or area show exactly
\* color, opacity, line width and dash; for scatter exactly color, opacity,
\* marker size and symbol; for bar_grouped and bar_stacked exactly color and
\* opacity; for a plot type no branch knows, what they show for line.
C24_VisibilityRule ==
    container_children # None =>
        VisibleFields =
            CASE plot_type \in {Some("line"), Some("area")} ->
                   {"color", "opacity", "line_width", "dash"}
              [] plot_type = Some("scatter") ->
                   {"color", "opacity", "marker_size", "symbol"}
              [] plot_type \in {Some("bar_grouped"), Some("bar_stacked")} ->
                   {"color", "opacity"}
              [] OTHER -> {"color", "opacity", "line_width", "dash"}

\* the inputs update_trace_style is registered on
StyleInputIds ==
    {"trace-color-picker", "trace-line-width", "trace-marker-size", "trace-line-style",
     "trace-opacity"}

\* C25: for every plot type the derived controls hold a control for each
\* style field (color, opacity, line width, marker size, dash, symbol), and
\* every input update_trace_style listens to is among them whenever the
\* popover is open; the plot type decides only which of them are hidden.
C25_ControlsForEveryField ==
    container_children # None =>
        /\ {"color", "opacity", "line_width", "marker_size", "dash", "symbol"}
             \subseteq ControlFields
        /\ \A id \in StyleInputIds : Shown(id) # None

\* C26: the chart update_figure returns has exactly three annotations, the
\* title, the description and the footnote in this order, also when the
\* description and the footnote are empty texts.
C26_ThreeAnnotations ==
    figure # None =>
        LET a == Val(figure).annotations
            u == Val(updated_config)
        IN  /\ Len(a) = 3
            /\ a[1].text = <<"<b>", Setting(u, "title", "text").s, "</b><br><sup>",
                             Setting(u, "title", "subtitle").s, "</sup>">>
            /\ a[2].text = <<Setting(u, "description", "text").s>>
            /\ a[3].text = <<"<i>", Setting(u, "footnote", "text").s, "</i>">>

C26_Witness ==
    /\ figure # None
    /\ Setting(Val(updated_config), "description", "text") = PyStr("")
    /\ Setting(Val(updated_config), "footnote", "text") = PyStr("")
    /\ Len(Val(figure).annotations) = 3


\* a schema value create_collapsible_section has a control for
Supported(value) ==
    \/ value.t \in {"bool", "int", "str"}
    \/ value.t = "list" /\ Len(value.items) = 2

\* C30: a schema value that is not a boolean, a number, a string or a list
\* of two (a list of three, a mapping, null) gets a row whose text says the
\* type is unsupported and names the setting, and construction goes on: every
\* section has its collapsible section and every setting its row, in schema
\* order, the supported ones with their control.
C30_UnsupportedTypeSurfaced ==
    layout # None =>
        /\ Len(Val(layout)) = Len(config)
        /\ \A i \in 1..Len(config) :
             LET settings == config[i].v
                 inputs == Val(layout)[i].inputs
             IN  /\ Val(layout)[i].container_id = <<config[i].k, "-container">>
                 /\ Len(inputs) = Len(settings)
                 /\ \A j \in 1..Len(settings) :
                      /\ inputs[j].label = settings[j].k
                      /\ IF Supported(settings[j].v)
                         THEN inputs[j].kind # "Div" /\ inputs[j].ids # <<>>
                         ELSE /\ inputs[j].kind = "Div"
                              /\ inputs[j].text = <<"Unsupported type for ", settings[j].k>>

C30_Witness ==
    /\ layout # None
    /\ \E i \in 1..Len(config) :
         /\ Len(config[i].v) >= 2
         /\ ~Supported(config[i].v[1].v)
         /\ Supported(config[i].v[2].v)
         /\ Val(layout)[i].inputs[1].kind = "Div"
         /\ Val(layout)[i].inputs[2].kind # "Div"
    /\ \A i \in 1..Len(config) : Len(Val(layout)[i].inputs) > 0


\* the record an edit writes when all its fields are applied
EditBatch(e) ==
    StyleData(e.color, e.line_width, e.marker_size, e.dash, e.opacity, SeedPlotType(config))

C33_PopoverIffSelected ==
    /\ Open <=> selected_trace # None
    /\ selected_trace # None => Val(selected_trace) \in Series

C33_Witness ==
    /\ last.event = "plot_type"
    /\ last.was_open
    /\ Open
    /\ selected_trace # None
    /\ trace_properties.kind = "object"
    /\ Len(trace_properties.items) > 0


\* C36: a chart click, a close-button click and a plot-type change, all handled
\* by toggle_trace_picker, leave the store as it is, keys and records; a style
\* edit, handled by update_trace_style, leaves selected-trace and the
\* visibility of the popover as they are.
C36_PopoverEventsLeaveStore ==
    [][ /\ last'.event \in {"click", "close", "plot_type"}
          => trace_properties' = trace_properties
        /\ last'.event = "style_edit"
          => /\ selected_trace' = selected_trace
             /\ container_style'.display = container_style.display ]_vars

C36_Witness ==
    /\ last.event = "click"
    /\ ~last.was_open
    /\ Open
    /\ trace_properties.kind = "object"
    /\ Len(trace_properties.items) > 0
    /\ ~HasKey(trace_properties.items, Val(selected_trace))


\* the plot type each of the three handlers works with in the current state
StyleEditPlotType == Some(SeedPlotType(config))
BuilderPlotType == plot_type
PopoverPlotType == IF plot_type = None THEN Some(config.properties_plot_type) ELSE plot_type

\* C35: in every reachable state the plot type update_trace_style decides the
\* written fields by is the live plot type update_figure builds with and
\* toggle_trace_picker derives the controls from, also after the plot-type
\* dropdown was changed from its seed value.
C35_OneActivePlotType ==
    /\ StyleEditPlotType = BuilderPlotType
    /\ PopoverPlotType = BuilderPlotType


\* C38: a chart click whose curve number is within the traces of the figure
\* on screen, met with the popover closed or open on any series, leaves the
\* popover visible, selected-trace equal to the name of that trace, and the
\* controls derived from the live plot type and the record the store has for
\* that series (the defaults when it has none).
C38_ResolvableClickSelects ==
    [][ (last'.event = "click" /\ ~StaleClick(last'.input, figure))
        => LET trace_name == Val(figure).data[last'.input + 1].name
           IN  /\ container_style'.display = "block"
               /\ selected_trace' = Some(trace_name)
               /\ container_children' =
                     Some(get_style_controls_for_plot_type(
                              PopoverPlotType, StyleOf(trace_properties, trace_name))) ]_vars


\* every input of the edit carries a value
NonNull(e) ==
    e.color # None /\ e.line_width # None /\ e.marker_size # None /\ e.dash # None
      /\ e.opacity # None

\* C37: after a style edit of the selected series s whose inputs all carry a
\* value, the chart built next has, for s among the selected columns, the
\* edit's values in its trace: with plot type line the line has the edit's
\* color, line width and dash and the trace its opacity; with plot type
\* scatter the marker has the edit's color and marker size.
C37_EditReachesChart ==
    ( /\ last.event = "style_edit"
      /\ last.raised = {}
      /\ NonNull(last.input)
      /\ selected_trace # None
      /\ figure # None )
    => \A i \in 1..Len(Traces) :
          Traces[i].name = Val(selected_trace) =>
            LET e == last.input
                t == Traces[i]
            IN  /\ plot_type = Some("line") =>
                     /\ Val(t.line).color = e.color
                     /\ Val(t.line).width = Val(e.line_width)
                     /\ Val(t.line).dash = Val(e.dash)
                     /\ t.opacity = Val(e.opacity)
                /\ plot_type = Some("scatter") =>
                     /\ Val(t.marker).color = e.color
                     /\ Val(t.marker).size = e.marker_size


\* the ids of the input components of the sections, in layout order
RECURSIVE RowIds(_)
RowIds(rows) == IF rows = <<>> THEN <<>> ELSE Head(rows).ids \o RowIds(Tail(rows))
RECURSIVE ControlIds(_)
ControlIds(sections) ==
    IF sections = <<>> THEN <<>>
    ELSE RowIds(Head(sections).inputs) \o ControlIds(Tail(sections))

\* the ids build_input_ids registers for the settings
RegisteredIds ==
    LET ids == Val(input_ids) IN [i \in 1..(Len(ids) - 2) |-> ids[i].id]

\* C34: for every schema the ids build_input_ids registers an Input for, one
\* per setting and two for a list of two, are the ids of the input components
\* create_collapsible_section creates, in the same order and no id twice,
\* also for a schema with a value of unsupported type: no Input is registered
\* for a component that is not there.
C34_InputsMatchControls ==
    (layout # None /\ input_ids # None) =>
        /\ RegisteredIds = ControlIds(Val(layout))
        /\ \A a, b \in 1..Len(RegisteredIds) : RegisteredIds[a] = RegisteredIds[b] => a = b


\* a step in which update_figure ran
FigureRun ==
    \E entry \in pending.triggered :
        entry.callback = "update_figure" /\ entry \notin pending'.triggered

\* C32: after a user event (settings edit, column selection, chart click,
\* close, plot-type change, style edit, import) the callbacks it triggers, one
\* after the other, come to an end and nothing is left waiting; a run of
\* update_figure triggers no callback, neither a store write nor a popover
\* transition that would rebuild the chart again.
C32_Quiescence ==
    /\ [][FigureRun => pending'.triggered \subseteq pending.triggered]_vars
    /\ (pending.triggered # {}) ~> (pending.triggered = {})

C32_Witness ==
    /\ pending.triggered = {}
    /\ last.event = "click"
    /\ pending.ran = {"toggle_trace_picker", "update_trace_style", "update_figure"}

====
